---- MODULE Spec2Model ----
(***************************************************************************)
(* A model of the Telegram client AI agent: the event router and its       *)
(* normalizer, the private-message reply handler, the group moderation     *)
(* handler, the moderation service, the chat agent's per-user             *)
(* conversation history, the TDLib client (peer resolution, start and the  *)
(* calls that need a started client), the client manager, the knowledge    *)
(* base with its chunking, and the lazily loaded speech-to-text model.     *)
(*                                                                         *)
(* Python values are modelled as follows.  A dict is a function whose      *)
(* DOMAIN is the set of keys present; None is the empty sequence where a   *)
(* value is optional (<<>> for None, <<v>> for v); a str is a sequence of  *)
(* characters or of camel-case words; an exception is an outcome tag.      *)
(***************************************************************************)
EXTENDS Integers, Sequences, FiniteSets, TLC

VARIABLES
    max_history,      \* ChatAgent.max_history
    conversations,    \* ChatAgent._conversations: dict user_id -> list of entries
    lastCall,         \* the last generate_response call and what it returned
    nCalls,           \* number of generate_response calls made so far
    exchanges,        \* per user, the exchanges direct generate_response calls stored
                      \* since the history was last cleared
    cHeap,            \* concurrent agent: the list objects, by object id
    cConv,            \* concurrent agent: _conversations, user_id -> object id
    cThreads,         \* concurrent agent: each client thread's frame of generate_response
    pmHandler,        \* the PMReplyHandler: monitored_users, escalation_chat_id
    pmLast,           \* the last can_handle or handle call on it and what it did
    gmHandler,        \* the GroupModerationHandler: monitored_groups, send_logs_to, send_warnings
    gmLast,           \* the last can_handle or handle call on it and what it did
    handlers,         \* EventRouter.handlers
    registered,       \* the handlers in the order add_handler was called with them
    routed,           \* the route call in progress or last made: position and effects
    modLast,          \* the last ModerationService.moderate_message call and what it did
    normLast,         \* the last message normalized on its own and the event made of it
    peerLast,         \* the last TDLibClient._resolve_peer call and what it did
    mgrClients,       \* TelegramClientManager.clients, in insertion order
    mgrLast,          \* the last TelegramClientManager.stop_all call and what it did
    kbStore,          \* the knowledge base's vector store: the ids it holds
    kbLast,           \* the build_index calls made so far and what each returned
    chunkLast,        \* the last _chunk_texts call and the chunks it returned
    mcFrames,         \* several clients on one router: each client thread's route call
    mcLog,            \* several clients on one router: the backend requests issued
    whisper_model,    \* ModerationService._whisper_model: 0 for None, else the load it came from
    wsLoads,          \* the whisper.load_model calls that returned a model
    wsThreads,        \* each client thread's position in _transcribe_voice
    ckLoop,           \* _chunk_texts taken one loop iteration at a time
    tdClient,         \* a TDLibClient: whether self.client is set, and whether it is logged in
    tdLog,            \* the calls made on that client and the backend requests they issued
    pmReplies         \* one client's updates in turn: the agent calls and replies they caused

agentVars == <<max_history, conversations, lastCall, nCalls, exchanges>>
concVars == <<cHeap, cConv, cThreads>>
pmVars == <<pmHandler, pmLast>>
gmVars == <<gmHandler, gmLast>>
routerVars == <<handlers, registered, routed>>
svcVars == <<modLast, normLast>>
mgrVars == <<mgrClients, mgrLast>>
kbVars == <<kbStore, kbLast>>
mcVars == <<mcFrames, mcLog>>
wsVars == <<whisper_model, wsLoads, wsThreads>>
tdVars == <<tdClient, tdLog>>
lateVars == <<wsVars, ckLoop, tdVars, pmReplies>>
auxVars == <<peerLast, mgrVars, kbVars, chunkLast, mcVars, lateVars>>

vars == <<max_history, conversations, lastCall, nCalls, exchanges, cHeap, cConv, cThreads,
          pmHandler, pmLast, gmHandler, gmLast, handlers, registered, routed,
          modLast, normLast, peerLast, mgrClients, mgrLast, kbStore, kbLast,
          chunkLast, mcFrames, mcLog, whisper_model, wsLoads, wsThreads, ckLoop,
          tdClient, tdLog, pmReplies>>

(***************************************************************************)
(* Bounds of the model.                                                    *)
(***************************************************************************)
MaxHistoryBound == 2     \* max_history ranges over 0 .. MaxHistoryBound
MaxCalls == 4            \* generate_response calls per behaviour
MaxThreadCalls == 1      \* generate_response calls per client thread (concurrent agent)
MaxHandlers == 2         \* handlers registered with the router

Users == {1, 2}
Messages == {"m1", "m2"}
Replies == {"r1"}

(***************************************************************************)
(* Python helpers.                                                         *)
(***************************************************************************)
\* seq[start:] for any integer start, as Python computes it
PySliceFrom(seq, start) ==
    LET n == Len(seq)
        s == IF start < 0 THEN (IF n + start < 0 THEN 0 ELSE n + start)
             ELSE (IF start > n THEN n ELSE start)
    IN  SubSeq(seq, s + 1, n)

\* dict.get(key, default)
DictGet(d, key, default) == IF key \in DOMAIN d THEN d[key] ELSE default

\* d[key] = value
DictPut(d, key, value) ==
    [k \in (DOMAIN d) \cup {key} |-> IF k = key THEN value ELSE d[k]]

EmptyDict == [k \in {} |-> <<>>]

(***************************************************************************)
(* ChatAgent.generate_response, run to completion by one caller.           *)
(*   retr: what the retriever does: "unset" (no retriever), "docs",        *)
(*         "empty" or "raise";                                             *)
(*   response: what chat_model.generate returns.                           *)
(* The result carries the dict after the call, whether the call raised,    *)
(* and how the chat model was called.                                      *)
(***************************************************************************)
\* a variant that keeps the oldest entries of an overlong history
TrimHistory_KeepsOldest(history, mh) ==
    IF Len(history) > mh * 2 THEN SubSeq(history, 1, mh * 2) ELSE history

TrimHistory(history, mh) ==
    IF Len(history) > mh * 2 THEN PySliceFrom(history, -(mh * 2)) ELSE history

\* a variant that remembers the exchange whether or not the response escalates
GenerateResponse_RemembersEscalated(convs, mh, user_message, user_id, clear_history, retr, response) ==
    LET cleared == IF clear_history THEN DictPut(convs, user_id, <<>>) ELSE convs
        history == DictGet(cleared, user_id, <<>>)
        appended == history \o << [role |-> "user", content |-> user_message],
                                  [role |-> "assistant", content |-> response.message] >>
    IN  IF retr = "raise"
        THEN [conversations |-> cleared, raised |-> TRUE, generateCalls |-> <<>>]
        ELSE [conversations |-> DictPut(cleared, user_id, TrimHistory(appended, mh)),
              raised |-> FALSE,
              generateCalls |-> << [user_message |-> user_message,
                                    conversation_history |-> history,
                                    rag_context |-> IF retr = "docs" THEN "documents" ELSE ""] >>]

GenerateResponse(convs, mh, user_message, user_id, clear_history, retr, response) ==
    LET cleared == IF clear_history THEN DictPut(convs, user_id, <<>>) ELSE convs
        history == DictGet(cleared, user_id, <<>>)
        rag_context == IF retr = "docs" THEN "documents" ELSE ""
        appended == history \o << [role |-> "user", content |-> user_message],
                                  [role |-> "assistant", content |-> response.message] >>
    IN  IF retr = "raise"
        THEN [conversations |-> cleared, raised |-> TRUE, generateCalls |-> <<>>]
        ELSE [conversations |->
                 IF ~response.should_escalate
                 THEN DictPut(cleared, user_id, TrimHistory(appended, mh))
                 ELSE cleared,
              raised |-> FALSE,
              generateCalls |-> << [user_message |-> user_message,
                                    conversation_history |-> history,
                                    rag_context |-> rag_context] >>]

Responses == [message : Replies, should_escalate : BOOLEAN]

\* what a call does to the record of a user's exchanges: agent.py:68-69
\* empties it, and agent.py:96-98 adds the exchange of a call that got a
\* response which does not escalate
Exchanged(record, user_message, user_id, clear_history, retr, response) ==
    LET kept == IF clear_history THEN <<>> ELSE record[user_id]
    IN  [record EXCEPT ![user_id] =
            IF retr # "raise" /\ ~response.should_escalate
            THEN Append(kept, [user |-> user_message, assistant |-> response.message])
            ELSE kept]

NoCall == [kind |-> "none"]

\* ChatAgent.__init__: no conversation yet
AgentIdle ==
    /\ conversations = EmptyDict
    /\ lastCall = NoCall
    /\ nCalls = 0
    /\ exchanges = [u \in Users |-> <<>>]

CallGenerateResponse ==
    /\ nCalls < MaxCalls
    /\ \E u \in Users, m \in Messages, clear \in BOOLEAN,
          retr \in {"unset", "docs", "empty", "raise"}, resp \in Responses :
          LET res == GenerateResponse(conversations, max_history, m, u, clear, retr, resp)
          IN  /\ conversations' = res.conversations
              /\ lastCall' = [kind |-> "call", user_id |-> u, user_message |-> m,
                              clear_history |-> clear, retr |-> retr,
                              raised |-> res.raised,
                              response |-> resp,
                              generateCalls |-> res.generateCalls,
                              before |-> conversations]
              /\ exchanges' = Exchanged(exchanges, m, u, clear, retr, resp)
    /\ nCalls' = nCalls + 1
    /\ UNCHANGED <<max_history, concVars, pmVars, gmVars, routerVars, svcVars, auxVars>>

NextAgent == CallGenerateResponse

(***************************************************************************)
(* ChatAgent.generate_response called from several client threads.  Each   *)
(* client delivers its updates on its own thread and all clients share one *)
(* agent; the agent takes no lock.  A step is one statement of the method. *)
(* Lists are objects: a frame's `history` and the dict may hold the same   *)
(* object, and list.append changes it in place.                            *)
(***************************************************************************)
Threads == {"c1", "c2"}

IdleFrame == [pc |-> "idle", calls |-> 0]

ConcIdle ==
    /\ cHeap = <<>>
    /\ cConv = EmptyDict
    /\ cThreads = [t \in Threads |-> IdleFrame]

UserEntry(t, k) == [role |-> "user", content |-> <<t, k>>]
AssistantEntry(t, k) == [role |-> "assistant", content |-> <<"re", t, k>>]

\* agent.py:68-69: entry, and `if clear_history: self._conversations[user_id] = []`
ConcEnter(t) ==
    /\ cThreads[t].pc = "idle"
    /\ cThreads[t].calls < MaxThreadCalls
    /\ \E u \in Users, clear \in BOOLEAN :
          /\ cThreads' = [cThreads EXCEPT ![t] =
                [pc |-> "get", calls |-> @.calls + 1, user_id |-> u,
                 clear_history |-> clear]]
          /\ IF clear
             THEN /\ cHeap' = Append(cHeap, <<>>)
                  /\ cConv' = DictPut(cConv, u, Len(cHeap) + 1)
             ELSE UNCHANGED <<cHeap, cConv,
                   lateVars>>
    /\ UNCHANGED <<agentVars, pmVars, gmVars, routerVars, svcVars, auxVars>>

\* agent.py:72: history = self._conversations.get(user_id, [])
ConcGet(t) ==
    /\ cThreads[t].pc = "get"
    /\ LET f == cThreads[t]
       IN  IF f.user_id \in DOMAIN cConv
           THEN /\ cThreads' = [cThreads EXCEPT ![t] =
                      [pc |-> "generate", calls |-> f.calls, user_id |-> f.user_id,
                       clear_history |-> f.clear_history, history |-> cConv[f.user_id]]]
                /\ UNCHANGED cHeap
           ELSE /\ cHeap' = Append(cHeap, <<>>)
                /\ cThreads' = [cThreads EXCEPT ![t] =
                      [pc |-> "generate", calls |-> f.calls, user_id |-> f.user_id,
                       clear_history |-> f.clear_history, history |-> Len(cHeap) + 1]]
    /\ UNCHANGED <<cConv, agentVars, pmVars, gmVars, routerVars, svcVars, auxVars>>

\* agent.py:88-96: response = self.chat_model.generate(...); if not response.should_escalate
ConcGenerate(t) ==
    /\ cThreads[t].pc = "generate"
    /\ \E esc \in BOOLEAN :
          cThreads' = [cThreads EXCEPT ![t] =
              [pc |-> IF esc THEN "return" ELSE "append_user",
               calls |-> @.calls, user_id |-> @.user_id,
               clear_history |-> @.clear_history, history |-> @.history,
               should_escalate |-> esc]]
    /\ UNCHANGED <<cHeap, cConv, agentVars, pmVars, gmVars, routerVars, svcVars, auxVars>>

\* agent.py:97: history.append({"role": "user", ...})
ConcAppendUser(t) ==
    /\ cThreads[t].pc = "append_user"
    /\ cHeap' = [cHeap EXCEPT ![cThreads[t].history] =
                    Append(@, UserEntry(t, cThreads[t].calls))]
    /\ cThreads' = [cThreads EXCEPT ![t].pc = "append_assistant"]
    /\ UNCHANGED <<cConv, agentVars, pmVars, gmVars, routerVars, svcVars, auxVars>>

\* agent.py:98: history.append({"role": "assistant", ...})
ConcAppendAssistant(t) ==
    /\ cThreads[t].pc = "append_assistant"
    /\ cHeap' = [cHeap EXCEPT ![cThreads[t].history] =
                    Append(@, AssistantEntry(t, cThreads[t].calls))]
    /\ cThreads' = [cThreads EXCEPT ![t].pc = "trim"]
    /\ UNCHANGED <<cConv, agentVars, pmVars, gmVars, routerVars, svcVars, auxVars>>

\* agent.py:101-102: if len(history) > max_history * 2: history = history[-max_history * 2:]
ConcTrim(t) ==
    /\ cThreads[t].pc = "trim"
    /\ LET h == cHeap[cThreads[t].history]
       IN  IF Len(h) > max_history * 2
           THEN /\ cHeap' = Append(cHeap, PySliceFrom(h, -(max_history * 2)))
                /\ cThreads' = [cThreads EXCEPT ![t].pc = "store",
                                                ![t].history = Len(cHeap) + 1]
           ELSE /\ cThreads' = [cThreads EXCEPT ![t].pc = "store"]
                /\ UNCHANGED cHeap
    /\ UNCHANGED <<cConv, agentVars, pmVars, gmVars, routerVars, svcVars, auxVars>>

\* agent.py:104: self._conversations[user_id] = history
ConcStore(t) ==
    /\ cThreads[t].pc = "store"
    /\ cConv' = DictPut(cConv, cThreads[t].user_id, cThreads[t].history)
    /\ cThreads' = [cThreads EXCEPT ![t].pc = "return"]
    /\ UNCHANGED <<cHeap, agentVars, pmVars, gmVars, routerVars, svcVars, auxVars>>

\* agent.py:106: return response
ConcReturn(t) ==
    /\ cThreads[t].pc = "return"
    /\ cThreads' = [cThreads EXCEPT ![t].pc = "idle"]
    /\ UNCHANGED <<cHeap, cConv, agentVars, pmVars, gmVars, routerVars, svcVars, auxVars>>

NextConc ==
    \E t \in Threads :
        \/ ConcEnter(t)
        \/ ConcGet(t)
        \/ ConcGenerate(t)
        \/ ConcAppendUser(t)
        \/ ConcAppendAssistant(t)
        \/ ConcTrim(t)
        \/ ConcStore(t)
        \/ ConcReturn(t)

\* the stored history of a user, as a list
ConcHistory(u) == IF u \in DOMAIN cConv THEN cHeap[cConv[u]] ELSE <<>>

(***************************************************************************)
(* Raw TDLib updates and the normalized events.                            *)
(*                                                                         *)
(* A content type ('@type' of a message content) is a sequence of its      *)
(* camel-case words: <<"message", "Text">> is 'messageText'.  A text is a  *)
(* sequence of characters.                                                 *)
(***************************************************************************)
Clients == Threads

\* str.startswith on word sequences
StartsWith(s, prefix) ==
    /\ Len(s) >= Len(prefix)
    /\ SubSeq(s, 1, Len(prefix)) = prefix

\* the first three decimal digits of n >= 100
RECURSIVE LeadingThree(_)
LeadingThree(n) == IF n < 1000 THEN n ELSE LeadingThree(n \div 10)

\* str(chat_id).startswith('-100')
StartsWithMinus100(chat_id) ==
    /\ chat_id < 0
    /\ -chat_id >= 100
    /\ LeadingThree(-chat_id) = 100

\* a variant that tells chats apart by the sign of chat_id alone
ChatTypeOf_BySignOnly(chat_id) ==
    IF chat_id > 0 THEN "PRIVATE"
    ELSE IF chat_id < 0 THEN "GROUP"
    ELSE "UNKNOWN"

\* router.py:150-161
ChatTypeOf(chat_id) ==
    IF chat_id > 0 THEN "PRIVATE"
    ELSE IF StartsWithMinus100(chat_id) THEN "SUPERGROUP"
    ELSE IF chat_id < 0 THEN "GROUP"
    ELSE "UNKNOWN"

MessageText == <<"message", "Text">>

\* str.lower of one camel-case word
LowerWord(w) ==
    CASE w = "Photo" -> "photo"
      [] w = "Video" -> "video"
      [] w = "Voice" -> "voice"
      [] w = "Note" -> "note"
      [] w = "Service" -> "service"
      [] w = "Poll" -> "poll"
      [] w = "Text" -> "text"
      [] w = "Document" -> "document"
      [] OTHER -> w

\* content_type.replace('message', '').lower()
RECURSIVE ReplaceMessageLower(_)
ReplaceMessageLower(ct) ==
    IF ct = <<>> THEN <<>>
    ELSE IF Head(ct) = "message" THEN ReplaceMessageLower(Tail(ct))
    ELSE <<LowerWord(Head(ct))>> \o ReplaceMessageLower(Tail(ct))

\* the caption text of a content object: content.get('caption', {}).get('text', '')
CaptionOf(content) == DictGet(DictGet(content, "caption", EmptyDict), "text", <<>>)

\* router.py:202-282 (the fields every media type gets: media_type and caption)
ExtractMediaInfo(content, content_type) ==
    [media_type |-> IF StartsWith(content_type, <<"message">>)
                    THEN ReplaceMessageLower(content_type)
                    ELSE <<"unknown">>,
     caption |-> CaptionOf(content)]

\* a variant whose degraded SenderInfo carries the id alone
GetSenderInfo_IdOnly(sender_id, user_info) ==
    IF user_info = <<>> \/ DOMAIN user_info[1] = {}
    THEN [user_id |-> sender_id, username |-> <<>>,
          first_name |-> <<>>, last_name |-> <<>>, phone |-> <<>>]
    ELSE LET info == user_info[1]
         IN  [user_id |-> sender_id,
              username |-> DictGet(DictGet(info, "usernames", EmptyDict),
                                   "editable_username", <<>>),
              first_name |-> DictGet(info, "first_name", <<>>),
              last_name |-> DictGet(info, "last_name", <<>>),
              phone |-> DictGet(info, "phone_number", <<>>)]

\* router.py:284-317; user_info is <<>> when get_user returned None, else <<dict>>
GetSenderInfo(sender_id, user_info) ==
    IF user_info = <<>> \/ DOMAIN user_info[1] = {}
    THEN [user_id |-> sender_id, username |-> <<>>,
          first_name |-> <<"User", sender_id>>, last_name |-> <<>>, phone |-> <<>>]
    ELSE LET info == user_info[1]
         IN  [user_id |-> sender_id,
              username |-> DictGet(DictGet(info, "usernames", EmptyDict),
                                   "editable_username", <<>>),
              first_name |-> DictGet(info, "first_name", <<>>),
              last_name |-> DictGet(info, "last_name", <<>>),
              phone |-> DictGet(info, "phone_number", <<>>)]

\* a variant that extracts media only from content types named 'message...'
TdlibToMessageEvent_MediaOfKnownTypesOnly(message, client, user_info) ==
    IF ~({"id", "chat_id", "date"} \subseteq DOMAIN message)
    THEN [outcome |-> "raise", error |-> "KeyError", event |-> <<>>,
          requests |-> IF {"id", "chat_id"} \subseteq DOMAIN message
                       THEN << [client |-> client, method |-> "get_user"] >>
                       ELSE <<>>]
    ELSE
    LET content == DictGet(message, "content", EmptyDict)
        content_type == DictGet(content, "type", <<>>)
        text == IF content_type = MessageText
                THEN DictGet(DictGet(content, "text", EmptyDict), "text", <<>>)
                ELSE CaptionOf(content)
        sender_id == DictGet(DictGet(message, "sender_id", EmptyDict), "user_id", 0)
        has_media == content_type # MessageText
    IN  [outcome |-> "event", error |-> "",
         event |-> << [kind |-> "MessageEvent",
                       message_id |-> message.id,
                       chat_id |-> message.chat_id,
                       sender_id |-> sender_id,
                       sender |-> GetSenderInfo(sender_id, user_info),
                       text |-> text,
                       date |-> message.date,
                       chat_type |-> ChatTypeOf(message.chat_id),
                       is_outgoing |-> DictGet(message, "is_outgoing", FALSE),
                       is_service |-> IF content_type # <<>>
                                      THEN StartsWith(content_type, <<"message", "Service">>)
                                      ELSE FALSE,
                       has_media |-> has_media,
                       media |-> IF has_media /\ StartsWith(content_type, <<"message">>)
                                 THEN <<ExtractMediaInfo(content, content_type)>>
                                 ELSE <<>>,
                       client |-> client] >>,
         requests |-> << [client |-> client, method |-> "get_user"] >>]

\* router.py:123-200.  message['id'], message['chat_id'] and message['date']
\* raise KeyError when the key is missing.
TdlibToMessageEvent(message, client, user_info) ==
    IF ~({"id", "chat_id", "date"} \subseteq DOMAIN message)
    THEN [outcome |-> "raise", error |-> "KeyError", event |-> <<>>,
          requests |-> IF {"id", "chat_id"} \subseteq DOMAIN message
                       THEN << [client |-> client, method |-> "get_user"] >>
                       ELSE <<>>]
    ELSE
    LET content == DictGet(message, "content", EmptyDict)
        content_type == DictGet(content, "type", <<>>)
        text == IF content_type = MessageText
                THEN DictGet(DictGet(content, "text", EmptyDict), "text", <<>>)
                ELSE CaptionOf(content)
        chat_id == message.chat_id
        sender_id == DictGet(DictGet(message, "sender_id", EmptyDict), "user_id", 0)
        has_media == content_type # MessageText
    IN  [outcome |-> "event", error |-> "",
         event |-> << [kind |-> "MessageEvent",
                       message_id |-> message.id,
                       chat_id |-> chat_id,
                       sender_id |-> sender_id,
                       sender |-> GetSenderInfo(sender_id, user_info),
                       text |-> text,
                       date |-> message.date,
                       chat_type |-> ChatTypeOf(chat_id),
                       is_outgoing |-> DictGet(message, "is_outgoing", FALSE),
                       is_service |-> IF content_type # <<>>
                                      THEN StartsWith(content_type, <<"message", "Service">>)
                                      ELSE FALSE,
                       has_media |-> has_media,
                       media |-> IF has_media
                                 THEN <<ExtractMediaInfo(content, content_type)>>
                                 ELSE <<>>,
                       client |-> client] >>,
         requests |-> << [client |-> client, method |-> "get_user"] >>]

NoEvent == [outcome |-> "none", error |-> "", event |-> <<>>, requests |-> <<>>]

\* router.py:79-121.  env.getMessage is what the getMessage request does:
\* "raise", "error" or "ok" with env.fetched the message it returns;
\* env.user_info is what client.get_user returns.
FromTdlib(update, client, env) ==
    LET update_type == update.type
    IN  IF update_type = "updateNewMessage"
        THEN IF "message" \in DOMAIN update
             THEN TdlibToMessageEvent(update.message, client, env.user_info)
             ELSE [outcome |-> "raise", error |-> "KeyError", event |-> <<>>,
                   requests |-> <<>>]
        ELSE IF update_type = "updateMessageEdited"
        THEN IF ~({"chat_id", "message_id"} \subseteq DOMAIN update)
             THEN [outcome |-> "raise", error |-> "KeyError", event |-> <<>>,
                   requests |-> <<>>]
             ELSE LET req == [client |-> client, method |-> "getMessage",
                              chat_id |-> update.chat_id,
                              message_id |-> update.message_id]
                  IN  IF env.getMessage = "raise"
                      THEN [outcome |-> "raise", error |-> "Exception", event |-> <<>>,
                            requests |-> <<req>>]
                      ELSE IF env.getMessage = "ok"
                      THEN LET r == TdlibToMessageEvent(env.fetched, client, env.user_info)
                           IN  [r EXCEPT !.requests = <<req>> \o @]
                      ELSE [NoEvent EXCEPT !.requests = <<req>>]
        ELSE IF update_type = "updateUserStatus"
        THEN IF "user_id" \in DOMAIN update
             THEN [NoEvent EXCEPT
                     !.outcome = "event",
                     !.event = << [kind |-> "UserStatusEvent",
                                   user_id |-> update.user_id,
                                   is_online |->
                                       DictGet(DictGet(update, "status", EmptyDict),
                                               "type", "") = "userStatusOnline",
                                   client |-> client] >>]
             ELSE [outcome |-> "raise", error |-> "KeyError", event |-> <<>>,
                   requests |-> <<>>]
        ELSE IF update_type = "updateChatAction"
        THEN IF "chat_id" \in DOMAIN update
             THEN [NoEvent EXCEPT
                     !.outcome = "event",
                     !.event = << [kind |-> "ChatActionEvent",
                                   chat_id |-> update.chat_id,
                                   user_id |->
                                       DictGet(DictGet(update, "sender_id", EmptyDict),
                                               "user_id", 0),
                                   action |->
                                       DictGet(DictGet(update, "action", EmptyDict),
                                               "type", "unknown"),
                                   client |-> client] >>]
             ELSE [outcome |-> "raise", error |-> "KeyError", event |-> <<>>,
                   requests |-> <<>>]
        ELSE NoEvent

\* router.py:54-77: only a dict with an '@type' key is a TDLib update
NormalizeEvent(update, client, env) ==
    IF "type" \in DOMAIN update THEN FromTdlib(update, client, env) ELSE NoEvent

(***************************************************************************)
(* The inputs: raw messages and the events normalization makes of them.    *)
(***************************************************************************)
Chars == {" ", "a"}
Texts == {<<>>, <<" ">>, <<"a">>, <<" ", "a">>}
ChatIds == {1, 0, -7, -1007}

TextContent(t) == [type |-> MessageText, text |-> [text |-> t]]
PhotoContent(t) == [type |-> <<"message", "Photo">>, caption |-> [text |-> t]]
ServiceContent == [type |-> <<"message", "Service", "Notice">>]

Contents ==
    {TextContent(t) : t \in Texts} \cup {PhotoContent(<<"a">>), ServiceContent}

KnownUser == [first_name |-> <<"Ann">>, last_name |-> <<"Lee">>,
              usernames |-> [editable_username |-> <<"ann">>],
              phone_number |-> <<"555">>]

RawMessages ==
    { [id |-> 10, chat_id |-> c, date |-> 1000, content |-> k,
       sender_id |-> [user_id |-> u], is_outgoing |-> o] :
        c \in ChatIds, k \in Contents, u \in Users, o \in BOOLEAN }

\* the message events of new-message updates whose sender lookup succeeded
MessageEvents ==
    { TdlibToMessageEvent(m, c, <<KnownUser>>).event[1] :
        m \in RawMessages, c \in {"c1"} }

OtherEvents ==
    { [kind |-> "UserStatusEvent", user_id |-> 1, is_online |-> TRUE, client |-> "c1"],
      [kind |-> "ChatActionEvent", chat_id |-> 1, user_id |-> 1,
       action |-> "chatActionTyping", client |-> "c1"] }

Events == MessageEvents \cup OtherEvents

\* what a client's send_message can do: return the sent message, return None
\* (tdlib_client.py:66-74, 310-318), or raise (_resolve_peer is called outside any try)
SendOutcomes == {"sent", "none", "raise"}

(***************************************************************************)
(* PMReplyHandler.                                                         *)
(***************************************************************************)
IsSpace(c) == c = " "

\* str.strip()
RECURSIVE LStrip(_)
LStrip(t) == IF t # <<>> /\ IsSpace(Head(t)) THEN LStrip(Tail(t)) ELSE t

RECURSIVE RStrip(_)
RStrip(t) ==
    IF t # <<>> /\ IsSpace(t[Len(t)]) THEN RStrip(SubSeq(t, 1, Len(t) - 1)) ELSE t

Strip(t) == RStrip(LStrip(t))

\* pm_reply_handler.py:34-59.  The debug line reads event.chat_type and
\* event.is_outgoing before the isinstance check; only a MessageEvent has them.
PMCanHandle(h, event) ==
    IF event.kind # "MessageEvent" THEN "AttributeError"
    ELSE IF event.chat_type # "PRIVATE" THEN "False"
    ELSE IF event.is_outgoing THEN "False"
    ELSE IF event.is_service THEN "False"
    ELSE IF event.text = <<>> \/ Strip(event.text) = <<>> THEN "False"
    ELSE IF h.monitored_users # <<>> /\ event.sender_id \notin h.monitored_users[1]
    THEN "False"
    ELSE "True"

\* bool(x) of an optional chat id: None and 0 are false
Truthy(opt) == opt # <<>> /\ opt[1] # 0

\* a variant that sends through the first client, whichever received the update
SendCall_OnFirstClient(client, peer, text, result) ==
    [method |-> "send_message", client |-> "c1", peer |-> peer, text |-> text,
     result |-> result]

SendCall(client, peer, text, result) ==
    [method |-> "send_message", client |-> client, peer |-> peer, text |-> text,
     result |-> result]

\* a variant whose reply send is made outside the try
PMHandle_LetsSendErrorsOut(h, event, convs, mh, env) ==
    LET res == GenerateResponse(convs, mh, event.text, event.sender_id, FALSE,
                                env.retr, env.response)
        replyCall == SendCall(event.client, event.chat_id,
                              [kind |-> "reply", message |-> env.response.message],
                              env.replySend)
    IN  IF res.raised
        THEN [conversations |-> res.conversations, calls |-> <<>>,
              outcome |-> "returned", caught |-> TRUE, responded |-> FALSE]
        ELSE [conversations |-> res.conversations, calls |-> <<replyCall>>,
              outcome |-> IF env.replySend = "raise" THEN "raise" ELSE "returned",
              caught |-> FALSE, responded |-> TRUE]

\* pm_reply_handler.py:61-108.  env.retr and env.response drive the agent,
\* env.escSend and env.replySend are what the two send_message calls do.
\* Every exception is caught inside handle.
PMHandle(h, event, convs, mh, env) ==
    LET res == GenerateResponse(convs, mh, event.text, event.sender_id, FALSE,
                                env.retr, env.response)
        response == env.response
        escalation_text == [kind |-> "escalation", user_id |-> event.sender_id,
                            chat_id |-> event.chat_id, question |-> event.text,
                            message |-> response.message]
        notify == response.should_escalate /\ Truthy(h.escalation_chat_id)
        escCalls == IF notify
                    THEN << SendCall(event.client, h.escalation_chat_id[1],
                                     escalation_text, env.escSend) >>
                    ELSE <<>>
        replyCall == SendCall(event.client, event.chat_id,
                              [kind |-> "reply", message |-> response.message],
                              env.replySend)
    IN  IF res.raised
        THEN [conversations |-> res.conversations, calls |-> <<>>,
              outcome |-> "returned", caught |-> TRUE, responded |-> FALSE]
        ELSE IF notify /\ env.escSend = "raise"
        THEN [conversations |-> res.conversations, calls |-> escCalls,
              outcome |-> "returned", caught |-> TRUE, responded |-> TRUE]
        ELSE [conversations |-> res.conversations,
              calls |-> Append(escCalls, replyCall),
              outcome |-> "returned", caught |-> (env.replySend = "raise"),
              responded |-> TRUE]

PMConfigs == [monitored_users : {<<>>, <<{1}>>}, escalation_chat_id : {<<>>, <<99>>}]

PMEnvs == [retr : {"empty", "raise"}, response : Responses,
           escSend : SendOutcomes, replySend : SendOutcomes]

PMIdle ==
    /\ pmHandler = [monitored_users |-> <<>>, escalation_chat_id |-> <<>>]
    /\ pmLast = [op |-> "none"]

\* the router asks the handler whether it takes the event
PMCanHandleCall ==
    /\ \E e \in Events :
          pmLast' = [op |-> "can_handle", event |-> e,
                     result |-> PMCanHandle(pmHandler, e)]
    /\ UNCHANGED <<pmHandler, agentVars, concVars, gmVars, routerVars, svcVars, auxVars>>

\* router.py:43-44: the router hands over the event the handler just said it takes
PMHandleCall ==
    /\ pmLast.op = "can_handle"
    /\ pmLast.result = "True"
    /\ \E env \in PMEnvs :
          LET e == pmLast.event
              r == PMHandle(pmHandler, e, conversations, max_history, env)
          IN  /\ conversations' = r.conversations
              /\ pmLast' = [op |-> "handle", event |-> e, env |-> env,
                            calls |-> r.calls, outcome |-> r.outcome,
                            responded |-> r.responded]
    /\ UNCHANGED <<pmHandler, max_history, lastCall, nCalls, exchanges, concVars, gmVars, routerVars, svcVars, auxVars>>

NextPM == PMCanHandleCall \/ PMHandleCall

(***************************************************************************)
(* GroupModerationHandler.                                                 *)
(***************************************************************************)
Abs(n) == IF n < 0 THEN -n ELSE n

\* group_moderation.py:14-34.  monitored_groups is <<>> when the argument is
\* None; `monitored_groups or set()` makes None and the empty set the same set.
GMNew(monitored_groups, send_logs_to, send_warnings) ==
    [monitored_groups |-> IF monitored_groups = <<>> THEN {} ELSE monitored_groups[1],
     send_logs_to |-> send_logs_to,
     send_warnings |-> send_warnings]

\* a variant that takes supergroup messages as well as basic-group ones
GMCanHandle_AcceptsSupergroups(h, event) ==
    IF event.kind # "MessageEvent" THEN "AttributeError"
    ELSE IF event.chat_type \notin {"GROUP", "SUPERGROUP"} THEN "False"
    ELSE IF event.is_outgoing /\ event.is_service THEN "False"
    ELSE IF Abs(event.chat_id) \notin h.monitored_groups THEN "False"
    ELSE "True"

\* a variant that leaves the account's own messages and service messages alone
GMCanHandle_SkipsOwnAndService(h, event) ==
    IF event.kind # "MessageEvent" THEN "AttributeError"
    ELSE IF event.chat_type # "GROUP" THEN "False"
    ELSE IF event.is_outgoing \/ event.is_service THEN "False"
    ELSE IF Abs(event.chat_id) \notin h.monitored_groups THEN "False"
    ELSE "True"

\* a variant that takes a message of any chat type
GMCanHandle_AnyChatType(h, event) ==
    IF event.kind # "MessageEvent" THEN "AttributeError"
    ELSE IF event.is_outgoing /\ event.is_service THEN "False"
    ELSE IF Abs(event.chat_id) \notin h.monitored_groups THEN "False"
    ELSE "True"

\* group_moderation.py:36-56.  The debug line reads event.chat_type before the
\* isinstance check.  self.monitored_groups is never None.
GMCanHandle(h, event) ==
    IF event.kind # "MessageEvent" THEN "AttributeError"
    ELSE IF event.chat_type # "GROUP" THEN "False"
    ELSE IF event.is_outgoing /\ event.is_service THEN "False"
    ELSE IF Abs(event.chat_id) \notin h.monitored_groups THEN "False"
    ELSE "True"

ModerateCall(event) == [method |-> "moderate_message", message_id |-> event.message_id]

DeleteCall(event, result) ==
    [method |-> "delete_message", client |-> event.client, chat_id |-> event.chat_id,
     message_id |-> event.message_id, result |-> result]

\* a variant that sends the log and the warning whatever delete_message returned
GMHandle_SendsWithoutDelete(h, event, env) ==
    IF event.kind # "MessageEvent"
    THEN [calls |-> <<>>, outcome |-> "returned"]
    ELSE IF env.moderation = "raise"
    THEN [calls |-> <<ModerateCall(event)>>, outcome |-> "raise"]
    ELSE IF ~env.result.should_delete
    THEN [calls |-> <<ModerateCall(event)>>, outcome |-> "returned"]
    ELSE
    LET deleted == <<ModerateCall(event), DeleteCall(event, env.delete)>>
        log_text == [kind |-> "log", message_id |-> event.message_id,
                     chat_id |-> event.chat_id, user_id |-> event.sender_id,
                     content |-> event.text, reason |-> env.result.reason]
        warning_text == [kind |-> "warning", reason |-> env.result.reason]
        logging == Truthy(h.send_logs_to)
        afterLog == IF logging
                    THEN Append(deleted, SendCall(event.client, h.send_logs_to[1],
                                                  log_text, env.logSend))
                    ELSE deleted
    IN  IF logging /\ env.logSend = "raise"
        THEN [calls |-> afterLog, outcome |-> "raise"]
        ELSE IF h.send_warnings
        THEN [calls |-> Append(afterLog, SendCall(event.client, event.chat_id,
                                                  warning_text, env.warnSend)),
              outcome |-> IF env.warnSend = "raise" THEN "raise" ELSE "returned"]
        ELSE [calls |-> afterLog, outcome |-> "returned"]

\* a variant that tries delete_message a second time when the first try fails
GMHandle_RetriesDelete(h, event, env) ==
    IF event.kind # "MessageEvent"
    THEN [calls |-> <<>>, outcome |-> "returned"]
    ELSE IF env.moderation = "raise"
    THEN [calls |-> <<ModerateCall(event)>>, outcome |-> "raise"]
    ELSE IF ~env.result.should_delete
    THEN [calls |-> <<ModerateCall(event)>>, outcome |-> "returned"]
    ELSE IF ~env.delete
    THEN [calls |-> <<ModerateCall(event), DeleteCall(event, FALSE),
                      DeleteCall(event, FALSE)>>,
          outcome |-> "returned"]
    ELSE [calls |-> <<ModerateCall(event), DeleteCall(event, TRUE)>>,
          outcome |-> "returned"]

\* group_moderation.py:66-99.  env.moderation is "raise" or "result" with
\* env.result the ModerationResult; env.delete is what delete_message returns;
\* env.logSend and env.warnSend are what the two send_message calls do.
\* Nothing is caught: an exception leaves handle.
GMHandle(h, event, env) ==
    IF event.kind # "MessageEvent"
    THEN [calls |-> <<>>, outcome |-> "returned"]
    ELSE IF env.moderation = "raise"
    THEN [calls |-> <<ModerateCall(event)>>, outcome |-> "raise"]
    ELSE IF ~env.result.should_delete
    THEN [calls |-> <<ModerateCall(event)>>, outcome |-> "returned"]
    ELSE IF ~env.delete
    THEN [calls |-> <<ModerateCall(event), DeleteCall(event, FALSE)>>,
          outcome |-> "returned"]
    ELSE
    LET deleted == <<ModerateCall(event), DeleteCall(event, TRUE)>>
        log_text == [kind |-> "log", message_id |-> event.message_id,
                     chat_id |-> event.chat_id, user_id |-> event.sender_id,
                     content |-> event.text, reason |-> env.result.reason]
        warning_text == [kind |-> "warning", reason |-> env.result.reason]
        logCall == SendCall(event.client, h.send_logs_to[1], log_text, env.logSend)
        warnCall == SendCall(event.client, event.chat_id, warning_text, env.warnSend)
        logging == Truthy(h.send_logs_to)
        afterLog == IF logging THEN Append(deleted, logCall) ELSE deleted
    IN  IF logging /\ event.has_media /\ event.media = <<>>
        THEN [calls |-> deleted, outcome |-> "raise"]
        ELSE IF logging /\ env.logSend = "raise"
        THEN [calls |-> afterLog, outcome |-> "raise"]
        ELSE IF h.send_warnings
        THEN [calls |-> Append(afterLog, warnCall),
              outcome |-> IF env.warnSend = "raise" THEN "raise" ELSE "returned"]
        ELSE [calls |-> afterLog, outcome |-> "returned"]

GMConfigs ==
    { GMNew(g, l, w) : g \in {<<>>, <<{7}>>, <<{8, 1007}>>},
                       l \in {<<>>, <<88>>}, w \in BOOLEAN }

ModerationResults == [should_delete : BOOLEAN, reason : {"spam"}]

GMEnvs == [moderation : {"result", "raise"}, result : ModerationResults,
           delete : BOOLEAN, logSend : SendOutcomes, warnSend : SendOutcomes]

GMIdle ==
    /\ gmHandler = GMNew(<<>>, <<>>, FALSE)
    /\ gmLast = [op |-> "none"]

\* the router asks the handler whether it takes the event
GMCanHandleCall ==
    /\ \E e \in Events :
          gmLast' = [op |-> "can_handle", event |-> e,
                     result |-> GMCanHandle(gmHandler, e)]
    /\ UNCHANGED <<gmHandler, agentVars, concVars, pmVars, routerVars, svcVars, auxVars>>

\* router.py:43-44: the router hands over the event the handler just said it takes
GMHandleCall ==
    /\ gmLast.op = "can_handle"
    /\ gmLast.result = "True"
    /\ \E env \in GMEnvs :
          LET e == gmLast.event
              r == GMHandle(gmHandler, e, env)
          IN  gmLast' = [op |-> "handle", event |-> e, env |-> env,
                         calls |-> r.calls, outcome |-> r.outcome]
    /\ UNCHANGED <<gmHandler, agentVars, concVars, pmVars, routerVars, svcVars, auxVars>>

NextGM == GMCanHandleCall \/ GMHandleCall

(***************************************************************************)
(* EventRouter.  A handler is any BaseHandler: what its can_handle and     *)
(* handle do with an event is its behaviour for that event:                *)
(*   "False"        can_handle returns false;                              *)
(*   "True"         can_handle returns true and handle returns;            *)
(*   "can_raise"    can_handle raises;                                     *)
(*   "handle_raise" can_handle returns true and handle raises.             *)
(***************************************************************************)
HandlerNames == {"h1", "h2"}
Behaviours == {"False", "True", "can_raise", "handle_raise"}

CanHandleCall(hs, i, result) ==
    [handler |-> hs[i], position |-> i, method |-> "can_handle", result |-> result]

HandleCall(hs, i, result) ==
    [handler |-> hs[i], position |-> i, method |-> "handle", result |-> result]

\* router.py:42-50: one handler's turn; an exception of either call is caught
HandlerTurn(hs, i, beh) ==
    IF beh = "False" THEN <<CanHandleCall(hs, i, "False")>>
    ELSE IF beh = "can_raise" THEN <<CanHandleCall(hs, i, "raise")>>
    ELSE IF beh = "True"
    THEN <<CanHandleCall(hs, i, "True"), HandleCall(hs, i, "returned")>>
    ELSE <<CanHandleCall(hs, i, "True"), HandleCall(hs, i, "raise")>>

\* a variant whose try encloses the loop: the first exception ends the pass
RECURSIVE Dispatch_StopsAtFirstError(_, _, _)
Dispatch_StopsAtFirstError(hs, behs, i) ==
    IF i > Len(hs) THEN [calls |-> <<>>, outcome |-> "returned"]
    ELSE IF behs[i] \in {"can_raise", "handle_raise"}
    THEN [calls |-> HandlerTurn(hs, i, behs[i]), outcome |-> "returned"]
    ELSE LET rest == Dispatch_StopsAtFirstError(hs, behs, i + 1)
         IN  [calls |-> HandlerTurn(hs, i, behs[i]) \o rest.calls,
              outcome |-> rest.outcome]

\* router.py:41-52: `for handler in self.handlers`, from position i on, and
\* how the loop ends
RECURSIVE Dispatch(_, _, _)
Dispatch(hs, behs, i) ==
    IF i > Len(hs) THEN [calls |-> <<>>, outcome |-> "returned"]
    ELSE LET rest == Dispatch(hs, behs, i + 1)
         IN  [calls |-> HandlerTurn(hs, i, behs[i]) \o rest.calls,
              outcome |-> rest.outcome]

\* a variant that puts the new handler first
AddHandlerTo_Prepends(hs, handler) == <<handler>> \o hs

\* router.py:20-23
AddHandlerTo(hs, handler) == Append(hs, handler)

FullMessage == [id |-> 10, chat_id |-> 1, date |-> 1000, content |-> TextContent(<<"a">>),
                sender_id |-> [user_id |-> 1], is_outgoing |-> FALSE]

\* a dict without some of its keys
Without(d, keys) == [k \in (DOMAIN d) \ keys |-> d[k]]

RouterMessages ==
    { Without(FullMessage, ks) : ks \in {{}, {"id"}, {"chat_id"}, {"date"}} }

NewMessageUpdates ==
    { [type |-> "updateNewMessage", message |-> m] : m \in RouterMessages }
    \cup { [type |-> "updateNewMessage"] }

EditedUpdate == [type |-> "updateMessageEdited", chat_id |-> 1, message_id |-> 10]

OtherUpdates ==
    { [type |-> "updateUserStatus", user_id |-> 1, status |-> [type |-> "userStatusOnline"]],
      [type |-> "updateChatAction", chat_id |-> 1, sender_id |-> [user_id |-> 1],
       action |-> [type |-> "chatActionTyping"]],
      [type |-> "updateOption"],
      [name |-> "not a TDLib update"] }

UserInfos == {<<>>, <<KnownUser>>}

RouterIdle ==
    /\ handlers = <<>>
    /\ registered = <<>>
    /\ routed = [pc |-> "idle"]

\* router.py:20-23: add_handler(handler)
AddHandler ==
    /\ routed.pc # "dispatching"
    /\ Len(handlers) < MaxHandlers
    /\ \E h \in HandlerNames :
          /\ handlers' = AddHandlerTo(handlers, h)
          /\ registered' = Append(registered, h)
    /\ UNCHANGED <<routed, agentVars, concVars, pmVars, gmVars, svcVars, auxVars>>

\* a variant without the `if not event: return` of router.py:36-38
AfterNormalize_DispatchesAnyway(update, client, env, n) ==
    [pc |-> IF n.outcome = "raise" THEN "raised" ELSE "dispatching",
     update |-> update, client |-> client, env |-> env, error |-> n.error,
     event |-> n.event, requests |-> n.requests, calls |-> <<>>,
     registered |-> <<>>]

\* the state of route after router.py:33-38, given what the backend did (env)
\* and what normalization made of the update (n)
AfterNormalize(update, client, env, n) ==
    [pc |-> IF n.outcome = "raise" THEN "raised"
            ELSE IF n.outcome = "none" THEN "returned"
            ELSE "dispatching",
     update |-> update, client |-> client, env |-> env, error |-> n.error,
     event |-> n.event, requests |-> n.requests, calls |-> <<>>,
     registered |-> <<>>]

\* a message getMessage may return that differs from the edit notification
EditedFetched ==
    [id |-> 11, chat_id |-> -7, date |-> 2000, content |-> TextContent(<<" ", "a">>),
     sender_id |-> [user_id |-> 2], is_outgoing |-> TRUE]

\* router.py:33-38: route(update, client) up to the handler loop
RouteNormalize ==
    /\ routed.pc # "dispatching"
    /\ \E client \in Clients :
          \/ \E update \in NewMessageUpdates, info \in UserInfos :
                LET env == [getMessage |-> "error", fetched |-> FullMessage,
                            user_info |-> info]
                IN  routed' = AfterNormalize(update, client, env,
                                             NormalizeEvent(update, client, env))
          \/ \E outcome \in {"ok", "error", "raise"},
                m \in RouterMessages \cup {EditedFetched}, info \in UserInfos :
                LET env == [getMessage |-> outcome, fetched |-> m, user_info |-> info]
                IN  routed' = AfterNormalize(EditedUpdate, client, env,
                                             NormalizeEvent(EditedUpdate, client, env))
          \/ \E update \in OtherUpdates :
                LET env == [getMessage |-> "error", fetched |-> FullMessage,
                            user_info |-> <<>>]
                IN  routed' = AfterNormalize(update, client, env,
                                             NormalizeEvent(update, client, env))
    /\ UNCHANGED <<handlers, registered, agentVars, concVars, pmVars, gmVars, svcVars, auxVars>>

\* router.py:40-52: the handler loop of route, and its return
RouteDispatch ==
    /\ routed.pc = "dispatching"
    /\ \E behs \in [1 .. Len(handlers) -> Behaviours] :
          LET d == Dispatch(handlers, behs, 1)
          IN  routed' = [routed EXCEPT !.pc = d.outcome,
                                       !.calls = d.calls,
                                       !.registered = registered]
    /\ UNCHANGED <<handlers, registered, agentVars, concVars, pmVars, gmVars, svcVars, auxVars>>

NextRouter == AddHandler \/ RouteNormalize \/ RouteDispatch

(***************************************************************************)
(* ModerationService.moderate_message, run to completion.                  *)
(*   env.download: what _download_file returns: "bytes", "empty" (b'') or  *)
(*                 "none" (it catches every exception and returns None);   *)
(*   env.transcribe: what _transcribe_voice returns: "text", "empty" ('')   *)
(*                   or "none" (whisper missing or failing);               *)
(*   env.model: whether the moderation model returns env.result or raises. *)
(* The result carries the calls made, in order, and what was returned.     *)
(***************************************************************************)
MediaContent(content_type, t) == [type |-> content_type, caption |-> [text |-> t]]

MediaTypes ==
    { <<"message", "Photo">>, <<"message", "Voice", "Note">>, <<"message", "Video">>,
      <<"message", "Video", "Note">>, <<"message", "Document">> }

ModContents ==
    {TextContent(t) : t \in Texts} \cup
    {MediaContent(ct, t) : ct \in MediaTypes, t \in {<<>>, <<"a">>}}

\* the message events the moderation service is given
ModEvents ==
    { TdlibToMessageEvent([id |-> 10, chat_id |-> -7, date |-> 1000, content |-> k,
                           sender_id |-> [user_id |-> 1], is_outgoing |-> FALSE],
                          "c1", <<KnownUser>>).event[1] : k \in ModContents }

ModEnvs == [download : {"bytes", "empty", "none"}, transcribe : {"text", "empty", "none"},
            model : {"result", "raise"}, result : ModerationResults]

\* ModerationResult(should_delete=False, reason=...)
Neutral(reason) == [should_delete |-> FALSE, reason |-> reason]

ModelCall(method, arg) == [method |-> method, arg |-> arg]

DownloadCall(event) == [method |-> "_download_file", arg |-> <<event.client>>]

TranscribeCall == [method |-> "_transcribe_voice", arg |-> <<"audio">>]

\* a call of a model method made where an exception leaves moderate_message
ModelUnguarded(calls, env) ==
    IF env.model = "raise"
    THEN [calls |-> calls, outcome |-> "raise", result |-> <<>>]
    ELSE [calls |-> calls, outcome |-> "returned", result |-> <<env.result>>]

\* a variant of the guarded call that lets the model's exception out
ModelGuarded_LetsErrorsOut(calls, env) ==
    IF env.model = "raise"
    THEN [calls |-> calls, outcome |-> "raise", result |-> <<>>]
    ELSE [calls |-> calls, outcome |-> "returned", result |-> <<env.result>>]

\* a call of a model method made inside the try of _moderate_photo / _moderate_voice
ModelGuarded(calls, env) ==
    IF env.model = "raise"
    THEN [calls |-> calls, outcome |-> "returned", result |-> <<Neutral("Moderation error")>>]
    ELSE [calls |-> calls, outcome |-> "returned", result |-> <<env.result>>]

\* a variant that moderates a photo by its caption alone
ModeratePhoto_CaptionOnly(event, env) ==
    ModelGuarded(<<DownloadCall(event),
                   ModelCall("moderate_text", event.media[1].caption)>>, env)

\* service.py:72-89.  In the caption fallback the argument list names
\* `context`, which is not defined: evaluating it raises NameError before
\* moderate_text is called, and the except clause turns it into a result.
ModeratePhoto(event, env) ==
    LET caption == event.media[1].caption
    IN  IF env.download # "bytes"
        THEN IF caption # <<>>
             THEN [calls |-> <<DownloadCall(event)>>, outcome |-> "returned",
                   result |-> <<Neutral("Moderation error")>>]
             ELSE [calls |-> <<DownloadCall(event)>>, outcome |-> "returned",
                   result |-> <<Neutral("Failed to download media")>>]
        ELSE ModelGuarded(<<DownloadCall(event),
                            ModelCall("moderate_image", caption)>>, env)

\* a variant that goes on to transcription when the download failed
ModerateVoice_TranscribesAnyway(event, env) ==
    IF env.transcribe # "text"
    THEN [calls |-> <<DownloadCall(event), TranscribeCall>>, outcome |-> "returned",
          result |-> <<Neutral("Failed to transcribe voice")>>]
    ELSE ModelGuarded(<<DownloadCall(event), TranscribeCall,
                        ModelCall("moderate_voice", <<"transcription">>)>>, env)

\* service.py:91-115
ModerateVoice(event, env) ==
    LET caption == event.media[1].caption
    IN  IF env.download # "bytes"
        THEN IF caption # <<>>
             THEN ModelGuarded(<<DownloadCall(event),
                                 ModelCall("moderate_text", caption)>>, env)
             ELSE [calls |-> <<DownloadCall(event)>>, outcome |-> "returned",
                   result |-> <<Neutral("Failed to download media")>>]
        ELSE IF env.transcribe # "text"
        THEN [calls |-> <<DownloadCall(event), TranscribeCall>>, outcome |-> "returned",
              result |-> <<Neutral("Failed to transcribe voice")>>]
        ELSE ModelGuarded(<<DownloadCall(event), TranscribeCall,
                            ModelCall("moderate_voice", <<"transcription">>)>>, env)

NoContent ==
    [calls |-> <<>>, outcome |-> "returned",
     result |-> <<Neutral("No content to moderate")>>]

\* a variant that moderates the caption of a video like that of any other media
ModerateMessage_InspectsVideo(event, env) ==
    IF ~event.has_media /\ event.text # <<>>
    THEN ModelUnguarded(<<ModelCall("moderate_text", event.text)>>, env)
    ELSE IF event.has_media /\ event.media # <<>>
    THEN LET media == event.media[1]
         IN  IF media.media_type = <<"photo">> THEN ModeratePhoto(event, env)
             ELSE IF media.media_type \in {<<"voice", "note">>, <<"voice">>}
             THEN ModerateVoice(event, env)
             ELSE IF media.caption # <<>>
             THEN ModelUnguarded(<<ModelCall("moderate_text", media.caption)>>, env)
             ELSE NoContent
    ELSE NoContent

\* service.py:31-70.  A media type is the sequence of its lower-cased words:
\* 'voicenote' is <<"voice", "note">>.
ModerateMessage(event, env) ==
    IF ~event.has_media /\ event.text # <<>>
    THEN ModelUnguarded(<<ModelCall("moderate_text", event.text)>>, env)
    ELSE IF event.has_media /\ event.media # <<>>
    THEN LET media == event.media[1]
         IN  IF media.media_type = <<"photo">> THEN ModeratePhoto(event, env)
             ELSE IF media.media_type \in {<<"voice", "note">>, <<"voice">>}
             THEN ModerateVoice(event, env)
             ELSE IF media.media_type = <<"video">> THEN NoContent
             ELSE IF media.caption # <<>>
             THEN ModelUnguarded(<<ModelCall("moderate_text", media.caption)>>, env)
             ELSE NoContent
    ELSE NoContent

ModIdle == modLast = [op |-> "none"]

\* the group moderation handler asks the service about a message
ModerateMessageCall ==
    /\ \E e \in ModEvents, env \in ModEnvs :
          LET r == ModerateMessage(e, env)
          IN  modLast' = [op |-> "moderate_message", event |-> e, env |-> env,
                          calls |-> r.calls, outcome |-> r.outcome, result |-> r.result]
    /\ UNCHANGED <<agentVars, concVars, pmVars, gmVars, routerVars, normLast, auxVars>>

NextMod == ModerateMessageCall

(***************************************************************************)
(* The normalizer on its own: one message dict of a new-message update is  *)
(* turned into a MessageEvent, for any chat_id within the bound.           *)
(***************************************************************************)
MaxChatId == 10100       \* chat_id ranges over -MaxChatId .. MaxChatId

\* content objects the normalizer has no branch for, and an empty one
OddContents ==
    { [type |-> <<"message", "Poll">>], [type |-> <<"custom">>], EmptyDict }

NormInputs ==
    { [chat_id |-> c, content |-> TextContent(<<"a">>)] : c \in (-MaxChatId) .. MaxChatId }
    \cup { [chat_id |-> c, content |-> k] :
             c \in ChatIds, k \in Contents \cup ModContents \cup OddContents }
    \cup { [chat_id |-> c] : c \in ChatIds }

NormIdle == normLast = [op |-> "none"]

\* router.py:88-90: _from_tdlib hands update['message'] to _tdlib_to_message_event;
\* the message and what get_user returns for its sender were drawn at the start
NormalizeMessageCall ==
    /\ normLast.op = "input"
    /\ LET i == normLast.input
           message == IF "content" \in DOMAIN i
                      THEN [id |-> 10, chat_id |-> i.chat_id, date |-> 1000,
                            content |-> i.content, sender_id |-> [user_id |-> 1],
                            is_outgoing |-> FALSE]
                      ELSE [id |-> 10, chat_id |-> i.chat_id, date |-> 1000,
                            sender_id |-> [user_id |-> 1], is_outgoing |-> FALSE]
           r == FromTdlib([type |-> "updateNewMessage", message |-> message],
                          "c1", [getMessage |-> "ok", fetched |-> message,
                                 user_info |-> normLast.user_info])
       IN  normLast' = [op |-> "normalize", message |-> message,
                        outcome |-> r.outcome, event |-> r.event]
    /\ UNCHANGED <<agentVars, concVars, pmVars, gmVars, routerVars, modLast, auxVars>>

NextNorm == NormalizeMessageCall

SvcIdle == ModIdle /\ NormIdle

(***************************************************************************)
(* TDLibClient._resolve_peer.  A peer is a number (an int, or a str of     *)
(* digits with an optional sign), a username, or a str int() cannot parse. *)
(*   env.accepted: the chat ids getChat answers without error;             *)
(*   env.search: what searchPublicChat does: "error", "found" (with an     *)
(*               id) or "no_id" (an answer without 'id').                  *)
(***************************************************************************)
MaxPeer == 110           \* numeric peers range over -MaxPeer .. MaxPeer

NumericPeer(n) == [kind |-> "number", value |-> n]
UsernamePeer(name) == [kind |-> "username", name |-> name]
MalformedPeer == [kind |-> "malformed"]

FoundChatId == 42

\* 10 ^ (the number of decimal digits of n), n >= 0
RECURSIVE DigitsScale(_)
DigitsScale(n) == IF n < 10 THEN 10 ELSE 10 * DigitsScale(n \div 10)

\* int('-100' + str(n)), n >= 0
SupergroupForm(n) == -(100 * DigitsScale(n) + n)

\* str(n).startswith('100'), n >= 0
StartsWith100(n) == n >= 100 /\ LeadingThree(n) = 100

\* a variant that always adds the "-100" form
IdVariants_AlwaysPrefixes(peer_id) ==
    << peer_id, Abs(peer_id), -Abs(peer_id), SupergroupForm(Abs(peer_id)) >>

\* tdlib_client.py:257-262
IdVariants(peer_id) ==
    << peer_id,
       Abs(peer_id),
       -Abs(peer_id),
       IF ~StartsWith100(Abs(peer_id)) THEN SupergroupForm(Abs(peer_id))
       ELSE -Abs(peer_id) >>

\* list(dict.fromkeys(seq)): the first occurrence of each value, in order
RECURSIVE FromKeys(_)
FromKeys(seq) ==
    IF seq = <<>> THEN <<>>
    ELSE LET init == FromKeys(SubSeq(seq, 1, Len(seq) - 1))
             last == seq[Len(seq)]
         IN  IF \E i \in 1 .. Len(init) : init[i] = last THEN init
             ELSE Append(init, last)

GetChatRequest(chat_id) == [method |-> "getChat", chat_id |-> chat_id]

\* tdlib_client.py:266-275: the loop over id_variants from position i on
RECURSIVE TryVariants(_, _, _)
TryVariants(variants, accepted, i) ==
    IF i > Len(variants) THEN [requests |-> <<>>, result |-> <<>>]
    ELSE IF variants[i] \in accepted
    THEN [requests |-> <<GetChatRequest(variants[i])>>, result |-> <<variants[i]>>]
    ELSE LET rest == TryVariants(variants, accepted, i + 1)
         IN  [requests |-> <<GetChatRequest(variants[i])>> \o rest.requests,
              result |-> rest.result]

\* str.lstrip('@')
RECURSIVE LStripAt(_)
LStripAt(name) == IF name # <<>> /\ Head(name) = "@" THEN LStripAt(Tail(name)) ELSE name

\* tdlib_client.py:218-275
ResolvePeer(running, peer, env) ==
    IF ~running THEN [requests |-> <<>>, result |-> <<>>]
    ELSE IF peer.kind = "username"
    THEN [requests |-> << [method |-> "searchPublicChat",
                           username |-> LStripAt(peer.name)] >>,
          result |-> IF env.search = "found" THEN <<FoundChatId>> ELSE <<>>]
    ELSE IF peer.kind = "malformed"
    THEN [requests |-> <<>>, result |-> <<>>]
    ELSE TryVariants(FromKeys(IdVariants(peer.value)), env.accepted, 1)

\* the chat ids a backend may know a numeric peer under
PeerForms(n) == {n, Abs(n), -Abs(n), SupergroupForm(Abs(n))}

PeerInputs ==
    UNION { { [running |-> TRUE, peer |-> NumericPeer(n),
               env |-> [accepted |-> S, search |-> "error"]] : S \in SUBSET PeerForms(n) } :
            n \in (-MaxPeer) .. MaxPeer }
    \cup { [running |-> TRUE, peer |-> UsernamePeer(name),
            env |-> [accepted |-> {}, search |-> srch]] :
            name \in {<<"b">>, <<"@", "b">>}, srch \in {"error", "found", "no_id"} }
    \cup { [running |-> r, peer |-> q, env |-> [accepted |-> {5}, search |-> "found"]] :
            r \in BOOLEAN, q \in {NumericPeer(5), UsernamePeer(<<"b">>), MalformedPeer} }

PeerIdle == peerLast = [op |-> "none"]

\* send_message, get_user, get_chat and get_history resolve their peer first
ResolvePeerCall ==
    /\ peerLast.op = "input"
    /\ LET i == peerLast.input
           r == ResolvePeer(i.running, i.peer, i.env)
       IN  peerLast' = [op |-> "_resolve_peer", input |-> i,
                        requests |-> r.requests, result |-> r.result]
    /\ UNCHANGED <<agentVars, concVars, pmVars, gmVars, routerVars, svcVars,
                   mgrVars, kbVars, chunkLast, mcVars,
                   lateVars>>

NextPeer == ResolvePeerCall

(***************************************************************************)
(* TelegramClientManager.  clients is a dict, iterated in insertion order: *)
(* a sequence of [name, running], running telling whether the client's     *)
(* backend object exists (TDLibClient.client is set).                      *)
(***************************************************************************)
MaxClients == 3          \* clients added to the manager

ClientNames == {"acc1", "acc2", "acc3"}

HasClient(clients, name) == \E i \in 1 .. Len(clients) : clients[i].name = name

\* client_manager.py:10-17
AddClientTo(clients, name, client) ==
    IF HasClient(clients, name) THEN clients
    ELSE Append(clients, [name |-> name, running |-> client.running])

\* tdlib_client.py:49-56.  backend is what self.client.stop() does: "ok" or "raise".
ClientStop(client, backend) ==
    IF client.running
    THEN IF backend = "raise" THEN "raise" ELSE "True"
    ELSE "False"

StopCall(client, result) == [name |-> client.name, method |-> "stop", result |-> result]

\* client_manager.py:29-37: `for name, client in self.clients.items()`, from
\* position i on.  Nothing is caught: an exception of stop() leaves stop_all.
RECURSIVE StopAll(_, _, _)
StopAll(clients, backends, i) ==
    IF i > Len(clients) THEN [calls |-> <<>>, outcome |-> "returned"]
    ELSE LET result == ClientStop(clients[i], backends[i])
         IN  IF result = "raise"
             THEN [calls |-> <<StopCall(clients[i], "raise")>>, outcome |-> "raise"]
             ELSE LET rest == StopAll(clients, backends, i + 1)
                  IN  [calls |-> <<StopCall(clients[i], result)>> \o rest.calls,
                       outcome |-> rest.outcome]

MgrIdle ==
    /\ mgrClients = <<>>
    /\ mgrLast = [op |-> "none"]

\* manager.add_client(name, client)
AddClient ==
    /\ Len(mgrClients) < MaxClients
    /\ \E name \in ClientNames, running \in BOOLEAN :
          mgrClients' = AddClientTo(mgrClients, name, [running |-> running])
    /\ UNCHANGED <<mgrLast, agentVars, concVars, pmVars, gmVars, routerVars, svcVars,
                   peerLast, kbVars, chunkLast, mcVars,
                   lateVars>>

\* manager.stop_all()
StopAllCall ==
    /\ \E backends \in [1 .. Len(mgrClients) -> {"ok", "raise"}] :
          LET r == StopAll(mgrClients, backends, 1)
          IN  mgrLast' = [op |-> "stop_all", clients |-> mgrClients,
                          calls |-> r.calls, outcome |-> r.outcome]
    /\ UNCHANGED <<mgrClients, agentVars, concVars, pmVars, gmVars, routerVars, svcVars,
                   peerLast, kbVars, chunkLast, mcVars,
                   lateVars>>

NextMgr == AddClient \/ StopAllCall

(***************************************************************************)
(* KnowledgeBase.  The vector store is the set of the ids it holds; ids    *)
(* are the stringified integers 0, 1, 2, ...                               *)
(***************************************************************************)
MaxDocs == 6             \* documents the store holds at the start
MaxBuilds == 4           \* build_index and clear calls per behaviour
MaxTextLen == 5          \* characters of a source text
MaxChunkSize == 3        \* chunk_size ranges over 1 .. MaxChunkSize

Min(a, b) == IF a < b THEN a ELSE b

\* a variant that moves on by a whole chunk, ignoring chunk_overlap
RECURSIVE ChunkFrom_StridesByWholeChunk(_, _, _, _, _, _)
ChunkFrom_StridesByWholeChunk(text, chunk_size, chunk_overlap, idx, start, chunk_idx) ==
    IF ~(start < Len(text)) THEN <<>>
    ELSE LET end == Min(start + chunk_size, Len(text))
             chunk == [text |-> SubSeq(text, start + 1, end),
                       metadata |-> [source_index |-> idx, chunk_index |-> chunk_idx,
                                     start |-> start, end |-> end]]
         IN  IF end = Len(text) THEN <<chunk>>
             ELSE <<chunk>> \o ChunkFrom_StridesByWholeChunk(text, chunk_size,
                                   chunk_overlap, idx, start + chunk_size, chunk_idx + 1)

\* knowledge_base.py:155-165: the while loop over one text, entered with the
\* given start and chunk_idx
RECURSIVE ChunkFrom(_, _, _, _, _, _)
ChunkFrom(text, chunk_size, chunk_overlap, idx, start, chunk_idx) ==
    IF ~(start < Len(text)) THEN <<>>
    ELSE LET end == Min(start + chunk_size, Len(text))
             chunk == [text |-> SubSeq(text, start + 1, end),
                       metadata |-> [source_index |-> idx, chunk_index |-> chunk_idx,
                                     start |-> start, end |-> end]]
         IN  IF end = Len(text) THEN <<chunk>>
             ELSE <<chunk>> \o ChunkFrom(text, chunk_size, chunk_overlap, idx,
                                         start + chunk_size - chunk_overlap, chunk_idx + 1)

\* knowledge_base.py:146-166: `for idx, text in enumerate(texts)`, from the
\* text at position i (idx = i - 1) on
RECURSIVE ChunkTexts(_, _, _, _)
ChunkTexts(texts, chunk_size, chunk_overlap, i) ==
    IF i > Len(texts) THEN <<>>
    ELSE ChunkFrom(texts[i], chunk_size, chunk_overlap, i - 1, 0, 0)
         \o ChunkTexts(texts, chunk_size, chunk_overlap, i + 1)

\* the texts of at most n characters over a two-letter alphabet
SourceTexts(n) == UNION { [1 .. k -> {"x", "y"}] : k \in 0 .. n }

ChunkConfigs ==
    { [chunk_size |-> s, chunk_overlap |-> o] : s \in 1 .. MaxChunkSize, o \in 0 .. MaxChunkSize }

\* the configurations _chunk_texts terminates on, with one text or two
ChunkInputs ==
    { [texts |-> <<t>>, config |-> c] :
        t \in SourceTexts(MaxTextLen),
        c \in {k \in ChunkConfigs : k.chunk_overlap < k.chunk_size} }
    \cup { [texts |-> <<t, u>>, config |-> [chunk_size |-> 2, chunk_overlap |-> 1]] :
        t \in SourceTexts(2), u \in SourceTexts(2) }

ChunkIdle == chunkLast = [op |-> "none"]

\* kb._chunk_texts(texts)
ChunkTextsCall ==
    /\ chunkLast.op = "input"
    /\ LET i == chunkLast.input
       IN  chunkLast' = [op |-> "_chunk_texts", input |-> i,
                         chunks |-> ChunkTexts(i.texts, i.config.chunk_size,
                                               i.config.chunk_overlap, 1)]
    /\ UNCHANGED <<agentVars, concVars, pmVars, gmVars, routerVars, svcVars,
                   peerLast, mgrVars, kbVars, mcVars,
                   lateVars>>

NextChunk == ChunkTextsCall

\* the store holding n documents
StoreOf(n) == 0 .. (n - 1)

\* knowledge_base.py:71-121.  The log line at 94 reads the local `text`
\* before line 101 assigns it: whenever the early return at 82-85 is not
\* taken, build_index raises UnboundLocalError there, after the clear of a
\* forced rebuild, and nothing below line 94 runs.
BuildIndex(store, force_rebuild) ==
    IF ~force_rebuild /\ Cardinality(store) > 0
    THEN [store |-> store, outcome |-> "returned", returned |-> <<Cardinality(store)>>]
    ELSE [store |-> IF force_rebuild THEN {} ELSE store,
          outcome |-> "raise", returned |-> <<>>]

KbIdle ==
    /\ kbStore = {}
    /\ kbLast = <<>>

\* kb.build_index(force_rebuild)
BuildIndexCall ==
    /\ Len(kbLast) < MaxBuilds
    /\ \E force \in BOOLEAN :
          LET r == BuildIndex(kbStore, force)
          IN  /\ kbStore' = r.store
              /\ kbLast' = Append(kbLast, [op |-> "build_index", force_rebuild |-> force,
                                           before |-> kbStore, after |-> r.store,
                                           outcome |-> r.outcome, returned |-> r.returned])
    /\ UNCHANGED <<agentVars, concVars, pmVars, gmVars, routerVars, svcVars,
                   peerLast, mgrVars, chunkLast, mcVars,
                   lateVars>>

\* knowledge_base.py:136-142: kb.clear()
KbClearCall ==
    /\ Len(kbLast) < MaxBuilds
    /\ kbStore' = {}
    /\ kbLast' = Append(kbLast, [op |-> "clear", force_rebuild |-> FALSE,
                                 before |-> kbStore, after |-> {},
                                 outcome |-> "returned", returned |-> <<>>])
    /\ UNCHANGED <<agentVars, concVars, pmVars, gmVars, routerVars, svcVars,
                   peerLast, mgrVars, chunkLast, mcVars,
                   lateVars>>

NextKb == BuildIndexCall \/ KbClearCall

(***************************************************************************)
(* Several clients on one router.  Each client's listener thread calls     *)
(* router.route(update, self) (tdlib_client.py:211); the router holds the  *)
(* PM reply handler and the group moderation handler, in that order, and   *)
(* the handlers share the chat agent and the moderation service.  A route  *)
(* call is taken in three steps (normalization, the PM handler's turn, the *)
(* moderation handler's turn) so that the clients' calls interleave.       *)
(* mcLog holds every backend request made: the client whose update caused  *)
(* it, the client it was issued on, and what it was.                       *)
(***************************************************************************)
MaxUpdates == 2          \* updates each client receives

McMessages ==
    { [id |-> 10, chat_id |-> c, date |-> 1000, content |-> k,
       sender_id |-> [user_id |-> 1], is_outgoing |-> FALSE] :
        c \in {1, -7}, k \in {TextContent(<<"a">>), PhotoContent(<<"a">>)} }

McUpdates ==
    { [type |-> "updateNewMessage", message |-> m] : m \in McMessages }
    \cup { [type |-> "updateMessageEdited", chat_id |-> 1, message_id |-> 10] }

McPMHandler == [monitored_users |-> <<>>, escalation_chat_id |-> <<99>>]
McGMHandler == GMNew(<<{7}>>, <<88>>, TRUE)

\* what a request found in a call record was
RequestKind(call) ==
    IF call.method = "send_message" THEN call.text.kind ELSE call.method

\* the backend requests among calls, each with the client it was issued on
Issued(c, calls) ==
    { [received_on |-> c,
       issued_on |-> IF calls[i].method = "_download_file" THEN calls[i].arg[1]
                     ELSE calls[i].client,
       what |-> RequestKind(calls[i])] :
      i \in { j \in 1 .. Len(calls) :
                \/ "client" \in DOMAIN calls[j]
                \/ calls[j].method = "_download_file" } }

McIdle ==
    /\ mcFrames = [c \in Clients |-> [pc |-> "idle", received |-> 0]]
    /\ mcLog = {}

\* router.py:33-38 on client c's thread: the update is normalized
McReceive(c) ==
    /\ mcFrames[c].pc = "idle"
    /\ mcFrames[c].received < MaxUpdates
    /\ \E update \in McUpdates, fetched \in McMessages :
          LET n == NormalizeEvent(update, c, [getMessage |-> "ok", fetched |-> fetched,
                                              user_info |-> <<KnownUser>>])
          IN  /\ mcLog' = mcLog \cup Issued(c, n.requests)
              /\ mcFrames' = [mcFrames EXCEPT ![c] =
                    IF n.outcome = "event"
                    THEN [pc |-> "pm", received |-> @.received + 1, event |-> n.event[1]]
                    ELSE [pc |-> "idle", received |-> @.received + 1]]
    /\ UNCHANGED <<agentVars, concVars, pmVars, gmVars, routerVars, svcVars,
                   peerLast, mgrVars, kbVars, chunkLast,
                   lateVars>>

\* router.py:42-44 on client c's thread: the PM reply handler's turn
McPMTurn(c) ==
    /\ mcFrames[c].pc = "pm"
    /\ LET e == mcFrames[c].event
       IN  IF PMCanHandle(pmHandler, e) = "True"
           THEN \E env \in PMEnvs :
                   /\ env.retr = "empty"
                   /\ env.escSend = "sent"
                   /\ env.replySend = "sent"
                   /\ LET r == PMHandle(pmHandler, e, conversations, max_history, env)
                      IN  /\ conversations' = r.conversations
                          /\ mcLog' = mcLog \cup Issued(c, r.calls)
           ELSE UNCHANGED <<conversations, mcLog,
                   lateVars>>
    /\ mcFrames' = [mcFrames EXCEPT ![c].pc = "gm"]
    /\ UNCHANGED <<max_history, lastCall, nCalls, exchanges, concVars, pmVars, gmVars,
                   routerVars,
                   svcVars, peerLast, mgrVars, kbVars, chunkLast,
                   lateVars>>

\* router.py:42-44 on client c's thread: the moderation handler's turn, then
\* route returns
McGMTurn(c) ==
    /\ mcFrames[c].pc = "gm"
    /\ LET e == mcFrames[c].event
       IN  IF GMCanHandle(gmHandler, e) = "True"
           THEN \E menv \in ModEnvs, genv \in GMEnvs :
                   /\ menv.transcribe = "text"
                   /\ menv.model = "result"
                   /\ menv.result.should_delete
                   /\ genv = [moderation |-> "result", result |-> menv.result,
                              delete |-> TRUE, logSend |-> "sent", warnSend |-> "sent"]
                   /\ mcLog' = mcLog \cup Issued(c, ModerateMessage(e, menv).calls)
                                     \cup Issued(c, GMHandle(gmHandler, e, genv).calls)
           ELSE UNCHANGED mcLog
    /\ mcFrames' = [mcFrames EXCEPT ![c] = [pc |-> "idle", received |-> @.received]]
    /\ UNCHANGED <<agentVars, concVars, pmVars, gmVars, routerVars, svcVars,
                   peerLast, mgrVars, kbVars, chunkLast,
                   lateVars>>

NextMc == \E c \in Clients : McReceive(c) \/ McPMTurn(c) \/ McGMTurn(c)

(***************************************************************************)
(* ModerationService._transcribe_voice on several threads.  The handlers   *)
(* of all clients share one ModerationService, and each client's updates   *)
(* are routed on that client's thread.  service.py:186-190 is taken in     *)
(* steps: the test `if not self._whisper_model`, the call of               *)
(* whisper.load_model, the assignment of its value, and the transcription. *)
(***************************************************************************)
MaxTranscriptions == 2   \* _transcribe_voice calls per client thread

\* service.py:186: the thread reads self._whisper_model
WsTest(c) ==
    /\ wsThreads[c].pc = "idle"
    /\ wsThreads[c].calls < MaxTranscriptions
    /\ wsThreads' = [wsThreads EXCEPT ![c] =
                        [pc |-> IF whisper_model = 0 THEN "load" ELSE "transcribe",
                         calls |-> @.calls + 1]]
    /\ UNCHANGED <<whisper_model, wsLoads>>

\* service.py:187-189: `import whisper` and whisper.load_model("base") return
\* a model, or raise; the except clauses of lines 218-223 return None
WsLoadModel(c) ==
    /\ wsThreads[c].pc = "load"
    /\ \/ /\ wsLoads' = wsLoads + 1
          /\ wsThreads' = [wsThreads EXCEPT ![c] =
                              [pc |-> "assign", calls |-> @.calls, loaded |-> wsLoads + 1]]
       \/ /\ wsThreads' = [wsThreads EXCEPT ![c] = [pc |-> "idle", calls |-> @.calls]]
          /\ UNCHANGED wsLoads
    /\ UNCHANGED whisper_model

\* service.py:189: self._whisper_model = <the model just loaded>
WsAssign(c) ==
    /\ wsThreads[c].pc = "assign"
    /\ whisper_model' = wsThreads[c].loaded
    /\ wsThreads' = [wsThreads EXCEPT ![c] = [pc |-> "transcribe", calls |-> @.calls]]
    /\ UNCHANGED wsLoads

\* service.py:193-217: self._whisper_model.transcribe(...), and the return
WsTranscribe(c) ==
    /\ wsThreads[c].pc = "transcribe"
    /\ wsThreads' = [wsThreads EXCEPT ![c] = [pc |-> "idle", calls |-> @.calls]]
    /\ UNCHANGED <<whisper_model, wsLoads>>

TranscribeVoiceStep(c) ==
    /\ WsTest(c) \/ WsLoadModel(c) \/ WsAssign(c) \/ WsTranscribe(c)
    /\ UNCHANGED <<agentVars, concVars, pmVars, gmVars, routerVars, svcVars,
                   peerLast, mgrVars, kbVars, chunkLast, mcVars, ckLoop, tdVars, pmReplies>>

NextWs == \E c \in Clients : TranscribeVoiceStep(c)

WsIdle ==
    /\ whisper_model = 0
    /\ wsLoads = 0
    /\ wsThreads = [c \in Clients |-> [pc |-> "idle", calls |-> 0]]

(***************************************************************************)
(* KnowledgeBase._chunk_texts, one iteration at a time, over one text and  *)
(* for any chunk_size >= 1 and chunk_overlap >= 0 (__init__ checks         *)
(* neither).  ckLoop holds the locals start and chunk_idx.                 *)
(***************************************************************************)
MaxIterations == 8       \* chunk_idx is followed up to this value and start down to
                         \* its negative; beyond them the loop goes on the same way,
                         \* and a loop that ends does so within len(text) iterations

CkIdle == ckLoop = [pc |-> "none"]

CkInputs ==
    [pc : {"called"}, text : SourceTexts(MaxTextLen),
     chunk_size : 1 .. MaxChunkSize, chunk_overlap : 0 .. MaxChunkSize]

\* knowledge_base.py:151-154: start = 0, chunk_idx = 0
CkEnter ==
    /\ ckLoop.pc = "called"
    /\ ckLoop' = [pc |-> "while", text |-> ckLoop.text,
                  chunk_size |-> ckLoop.chunk_size, chunk_overlap |-> ckLoop.chunk_overlap,
                  start |-> 0, chunk_idx |-> 0]

\* knowledge_base.py:155: `while start < text_length`
CkTest ==
    /\ ckLoop.pc = "while"
    /\ ckLoop' = [ckLoop EXCEPT
                    !.pc = IF ckLoop.start < Len(ckLoop.text) THEN "body" ELSE "returned"]

\* knowledge_base.py:156-165: the chunk is appended; break, or move on
CkBody ==
    /\ ckLoop.pc = "body"
    /\ LET end == Min(ckLoop.start + ckLoop.chunk_size, Len(ckLoop.text))
           next == ckLoop.start + ckLoop.chunk_size - ckLoop.chunk_overlap
       IN  IF end = Len(ckLoop.text)
           THEN ckLoop' = [ckLoop EXCEPT !.pc = "returned"]
           ELSE ckLoop' = [ckLoop EXCEPT
                             !.pc = "while",
                             !.start = IF next < -MaxIterations THEN -MaxIterations
                                       ELSE next,
                             !.chunk_idx = Min(@ + 1, MaxIterations)]

ChunkLoopStep ==
    /\ CkEnter \/ CkTest \/ CkBody
    /\ UNCHANGED <<agentVars, concVars, pmVars, gmVars, routerVars, svcVars,
                   peerLast, mgrVars, kbVars, chunkLast, mcVars, wsVars, tdVars, pmReplies>>

NextCk == ChunkLoopStep

(***************************************************************************)
(* TDLibClient: start, and the calls that need a started client.           *)
(* tdClient.client is "None" or "set" (self.client holds a Telegram        *)
(* object); tdClient.started tells whether some start() has returned True. *)
(* tdLog has one entry per call: what it returned, the backend requests it *)
(* issued, and whether a start had succeeded by then.                      *)
(***************************************************************************)
MaxClientCalls == 3      \* calls made on the client per behaviour

TdNew == [client |-> "None", started |-> FALSE]

TdIdle ==
    /\ tdClient = TdNew
    /\ tdLog = <<>>

\* tdlib_client.py:30-47.  backend: "ok", "init_raise" (Telegram(...) raises,
\* before self.client is assigned) or "login_raise" (self.client.login()
\* raises, after it was assigned).
ClientStart(td, backend) ==
    IF backend = "init_raise"
    THEN [td |-> td, result |-> "False", requests |-> <<>>]
    ELSE IF backend = "login_raise"
    THEN [td |-> [td EXCEPT !.client = "set"], result |-> "False",
          requests |-> <<[method |-> "login"]>>]
    ELSE [td |-> [client |-> "set", started |-> TRUE], result |-> "True",
          requests |-> <<[method |-> "login"]>>]

\* tdlib_client.py:58-76 and 277-318.  env.send is what sendMessage does.
ClientSendMessage(td, peer, env) ==
    IF td.client = "None" THEN [result |-> "None", requests |-> <<>>]
    ELSE LET r == ResolvePeer(TRUE, peer, env)
         IN  IF r.result = <<>> THEN [result |-> "None", requests |-> r.requests]
             ELSE [result |-> IF env.send = "sent" THEN "message" ELSE "None",
                   requests |-> Append(r.requests,
                                       [method |-> "sendMessage", chat_id |-> r.result[1]])]

\* tdlib_client.py:78-100.  backend is what deleteMessages does.
ClientDeleteMessage(td, chat_id, backend) ==
    IF td.client = "None" THEN [result |-> "False", requests |-> <<>>]
    ELSE [result |-> IF backend = "ok" THEN "True" ELSE "False",
          requests |-> <<[method |-> "deleteMessages", chat_id |-> chat_id]>>]

\* tdlib_client.py:200-214
ClientListen(td, backend) ==
    IF td.client = "None" THEN [result |-> "not registered", requests |-> <<>>]
    ELSE [result |-> IF backend = "ok" THEN "registered" ELSE "not registered",
          requests |-> <<[method |-> "add_message_handler"]>>]

TdLogged(method, r) ==
    Append(tdLog, [method |-> method, result |-> r.result, requests |-> r.requests,
                   started |-> tdClient.started])

TdStart ==
    /\ \E backend \in {"ok", "init_raise", "login_raise"} :
          LET r == ClientStart(tdClient, backend)
          IN  /\ tdClient' = r.td
              /\ tdLog' = TdLogged("start", r)

TdSendMessage ==
    /\ \E accepted \in {{}, {5}}, send \in {"sent", "error", "raise"} :
          tdLog' = TdLogged("send_message",
                            ClientSendMessage(tdClient, NumericPeer(5),
                                [accepted |-> accepted, search |-> "error", send |-> send]))
    /\ UNCHANGED tdClient

TdDeleteMessage ==
    /\ \E backend \in {"ok", "error", "raise"} :
          tdLog' = TdLogged("delete_message", ClientDeleteMessage(tdClient, 5, backend))
    /\ UNCHANGED tdClient

TdListen ==
    /\ \E backend \in {"ok", "raise"} :
          tdLog' = TdLogged("listen", ClientListen(tdClient, backend))
    /\ UNCHANGED tdClient

ClientCall ==
    /\ Len(tdLog) < MaxClientCalls
    /\ TdStart \/ TdSendMessage \/ TdDeleteMessage \/ TdListen
    /\ UNCHANGED <<agentVars, concVars, pmVars, gmVars, routerVars, svcVars,
                   peerLast, mgrVars, kbVars, chunkLast, mcVars, wsVars, ckLoop, pmReplies>>

NextTd == ClientCall

(***************************************************************************)
(* One client's updates, routed to the PM reply handler in turn.  A        *)
(* private chat's messages arrive as new-message updates, and an edit of   *)
(* a message as a message-edited update, for which getMessage returns the  *)
(* message with that id as it now reads.  pmReplies has one entry per      *)
(* route call: the update, and what the handler did for it.                *)
(***************************************************************************)
MaxSeqUpdates == 2       \* updates routed per behaviour

SeqMessage(id, t) ==
    [id |-> id, chat_id |-> 1, date |-> 1000, content |-> TextContent(t),
     sender_id |-> [user_id |-> 1], is_outgoing |-> FALSE]

SeqMessages == { SeqMessage(id, t) : id \in {10, 11}, t \in {<<"a">>, <<" ", "a">>} }

\* router.py:25-52 with the PM reply handler registered: what one route call
\* does, given the message of the update or the one getMessage returns
SeqRouted(update, m, h, convs, mh, penv) ==
    LET n == NormalizeEvent(update, "c1", [getMessage |-> "ok", fetched |-> m,
                                           user_info |-> <<KnownUser>>])
        taken == n.outcome = "event" /\ PMCanHandle(h, n.event[1]) = "True"
        r == PMHandle(h, n.event[1], convs, mh, penv)
    IN  [conversations |-> IF taken THEN r.conversations ELSE convs,
         entry |-> [update |-> update.type, chat_id |-> m.chat_id, message_id |-> m.id,
                    handled |-> taken,
                    agent_called |-> taken,
                    calls |-> IF taken THEN r.calls ELSE <<>>]]

SeqRoute ==
    /\ Len(pmReplies) < MaxSeqUpdates
    /\ \E m \in SeqMessages, penv \in PMEnvs :
       \E update \in { [type |-> "updateNewMessage", message |-> m],
                       [type |-> "updateMessageEdited", chat_id |-> m.chat_id,
                        message_id |-> m.id] } :
          /\ update.type = "updateMessageEdited"
             => \E i \in 1 .. Len(pmReplies) :
                   pmReplies[i].chat_id = m.chat_id /\ pmReplies[i].message_id = m.id
          /\ update.type = "updateNewMessage"
             => \A i \in 1 .. Len(pmReplies) : pmReplies[i].message_id # m.id
          /\ LET r == SeqRouted(update, m, pmHandler, conversations, max_history, penv)
             IN  /\ conversations' = r.conversations
                 /\ pmReplies' = Append(pmReplies, r.entry)
    /\ UNCHANGED <<max_history, lastCall, nCalls, exchanges, concVars, pmHandler, pmLast,
                   gmVars, routerVars, svcVars, peerLast, mgrVars, kbVars, chunkLast,
                   mcVars, wsVars, ckLoop, tdVars>>

NextSeq == SeqRoute

SeqIdle == pmReplies = <<>>

(***************************************************************************)
(* Nothing called yet.                                                     *)
(***************************************************************************)
LateIdle == WsIdle /\ CkIdle /\ TdIdle /\ SeqIdle

AuxIdle == PeerIdle /\ MgrIdle /\ KbIdle /\ ChunkIdle /\ McIdle /\ LateIdle

(***************************************************************************)
(* Specifications.                                                         *)
(***************************************************************************)

\* the chat agent, called by one caller at a time, for any max_history >= 0
InitAgent ==
    /\ AuxIdle
    /\ SvcIdle
    /\ RouterIdle
    /\ GMIdle
    /\ PMIdle
    /\ max_history \in 0 .. MaxHistoryBound
    /\ AgentIdle
    /\ ConcIdle

SpecAgent == InitAgent /\ [][NextAgent]_vars

\* the chat agent called from the client threads, for any max_history >= 1
InitConc ==
    /\ AuxIdle
    /\ SvcIdle
    /\ RouterIdle
    /\ GMIdle
    /\ PMIdle
    /\ max_history \in 1 .. MaxHistoryBound
    /\ AgentIdle
    /\ ConcIdle

SpecConc == InitConc /\ [][NextConc]_vars

\* one PMReplyHandler, on an agent that keeps one exchange per user
InitPM ==
    /\ AuxIdle
    /\ SvcIdle
    /\ RouterIdle
    /\ GMIdle
    /\ max_history = 1
    /\ AgentIdle
    /\ ConcIdle
    /\ pmHandler \in PMConfigs
    /\ pmLast = [op |-> "none"]

SpecPM == InitPM /\ [][NextPM]_vars

\* one GroupModerationHandler, however it was constructed
InitGM ==
    /\ AuxIdle
    /\ SvcIdle
    /\ RouterIdle
    /\ max_history = 1
    /\ AgentIdle
    /\ ConcIdle
    /\ PMIdle
    /\ gmHandler \in GMConfigs
    /\ gmLast = [op |-> "none"]

SpecGM == InitGM /\ [][NextGM]_vars

\* the router, its handlers registered at any time between two route calls
InitRouter ==
    /\ AuxIdle
    /\ SvcIdle
    /\ max_history = 1
    /\ AgentIdle
    /\ ConcIdle
    /\ PMIdle
    /\ GMIdle
    /\ handlers = <<>>
    /\ registered = <<>>
    /\ routed = [pc |-> "idle"]

SpecRouter == InitRouter /\ [][NextRouter]_vars

\* the moderation service, asked about one message at a time
InitMod ==
    /\ AuxIdle
    /\ RouterIdle
    /\ GMIdle
    /\ PMIdle
    /\ max_history = 1
    /\ AgentIdle
    /\ ConcIdle
    /\ SvcIdle

SpecMod == InitMod /\ [][NextMod]_vars

\* the normalizer, given any one message
InitNorm ==
    /\ AuxIdle
    /\ RouterIdle
    /\ GMIdle
    /\ PMIdle
    /\ max_history = 1
    /\ AgentIdle
    /\ ConcIdle
    /\ ModIdle
    /\ normLast \in [op : {"input"}, input : NormInputs, user_info : UserInfos]

SpecNorm == InitNorm /\ [][NextNorm]_vars

\* _resolve_peer, given any one peer and backend
InitPeer ==
    /\ RouterIdle /\ GMIdle /\ PMIdle /\ max_history = 1 /\ AgentIdle /\ ConcIdle
    /\ SvcIdle /\ MgrIdle /\ KbIdle /\ ChunkIdle /\ McIdle /\ LateIdle
    /\ peerLast \in [op : {"input"}, input : PeerInputs]

SpecPeer == InitPeer /\ [][NextPeer]_vars

\* the client manager, from no client on
InitMgr ==
    /\ RouterIdle /\ GMIdle /\ PMIdle /\ max_history = 1 /\ AgentIdle /\ ConcIdle
    /\ SvcIdle /\ AuxIdle

SpecMgr == InitMgr /\ [][NextMgr]_vars

\* the knowledge base, over a store that holds any number of documents
InitKb ==
    /\ RouterIdle /\ GMIdle /\ PMIdle /\ max_history = 1 /\ AgentIdle /\ ConcIdle
    /\ SvcIdle /\ PeerIdle /\ MgrIdle /\ ChunkIdle /\ McIdle /\ LateIdle
    /\ kbStore \in {StoreOf(n) : n \in 0 .. MaxDocs}
    /\ kbLast = <<>>

SpecKb == InitKb /\ [][NextKb]_vars

\* _chunk_texts, given any texts and configuration
InitChunk ==
    /\ RouterIdle /\ GMIdle /\ PMIdle /\ max_history = 1 /\ AgentIdle /\ ConcIdle
    /\ SvcIdle /\ PeerIdle /\ MgrIdle /\ KbIdle /\ McIdle /\ LateIdle
    /\ chunkLast \in [op : {"input"}, input : ChunkInputs]

SpecChunk == InitChunk /\ [][NextChunk]_vars

\* one moderation service transcribing on the client threads
InitWs ==
    /\ RouterIdle /\ GMIdle /\ PMIdle /\ max_history = 1 /\ AgentIdle /\ ConcIdle
    /\ SvcIdle /\ AuxIdle

SpecWs == InitWs /\ [][NextWs]_vars

\* one client's updates in turn, with the PM reply handler of the scripts
InitSeq ==
    /\ RouterIdle /\ GMIdle /\ max_history = 1 /\ AgentIdle /\ ConcIdle
    /\ SvcIdle /\ AuxIdle
    /\ pmHandler = McPMHandler
    /\ pmLast = [op |-> "none"]

SpecSeq == InitSeq /\ [][NextSeq]_vars

\* _chunk_texts run step by step: a call, once made, goes on running
InitCk ==
    /\ RouterIdle /\ GMIdle /\ PMIdle /\ max_history = 1 /\ AgentIdle /\ ConcIdle
    /\ SvcIdle /\ PeerIdle /\ MgrIdle /\ KbIdle /\ ChunkIdle /\ McIdle
    /\ WsIdle /\ TdIdle /\ SeqIdle
    /\ ckLoop \in CkInputs

SpecCk == InitCk /\ [][NextCk]_vars /\ WF_vars(NextCk)

\* one TDLibClient, from its construction on
InitTd ==
    /\ RouterIdle /\ GMIdle /\ PMIdle /\ max_history = 1 /\ AgentIdle /\ ConcIdle
    /\ SvcIdle /\ AuxIdle

SpecTd == InitTd /\ [][NextTd]_vars

\* two clients on one router with both handlers registered
InitMc ==
    /\ RouterIdle /\ max_history = 1 /\ AgentIdle /\ ConcIdle
    /\ SvcIdle /\ AuxIdle
    /\ pmHandler = McPMHandler
    /\ pmLast = [op |-> "none"]
    /\ gmHandler = McGMHandler
    /\ gmLast = [op |-> "none"]

SpecMc == InitMc /\ [][NextMc]_vars

(***************************************************************************)
(* Chat agent history.                                                     *)
(***************************************************************************)

\* C7: for every max_history >= 0, after each generate_response call every
\* user's stored history has at most max_history*2 entries.
C7_HistoryNeverExceedsWindow ==
    \A u \in DOMAIN conversations : Len(conversations[u]) <= max_history * 2

\* the last call returned an escalating response and was not asked to clear
EscalatedCall ==
    /\ lastCall.kind = "call"
    /\ ~lastCall.raised
    /\ ~lastCall.clear_history
    /\ lastCall.response.should_escalate

\* C8: a generate_response call (clear_history false) whose response escalates
\* leaves the stored history of every user exactly as it was before the call.
C8_EscalatedCallLeavesHistories ==
    EscalatedCall => conversations = lastCall.before

C8_Witness ==
    /\ EscalatedCall
    /\ lastCall.user_id \in DOMAIN conversations
    /\ Len(conversations[lastCall.user_id]) > 0
    /\ \E u \in DOMAIN conversations : u # lastCall.user_id /\ Len(conversations[u]) > 0

\* the two entries the k-th call of thread t appends
Exchange(t, k) == <<UserEntry(t, k), AssistantEntry(t, k)>>

\* threads t1 and t2 have each completed one non-escalated call for user u
BothReturned(t1, t2, u) ==
    /\ t1 # t2
    /\ \A t \in {t1, t2} :
          /\ cThreads[t].pc = "idle"
          /\ cThreads[t].calls = 1
          /\ cThreads[t].user_id = u
          /\ ~cThreads[t].clear_history
          /\ ~cThreads[t].should_escalate

\* C9: two concurrent non-escalated generate_response calls for the same user
\* lose no update: afterwards the user's history is what the two calls give
\* when run one after the other, in one order or the other.
C9_NoLostUpdate ==
    \A t1 \in Threads, t2 \in Threads, u \in Users :
        BothReturned(t1, t2, u) =>
            \/ ConcHistory(u) =
                  TrimHistory(TrimHistory(Exchange(t1, 1), max_history) \o Exchange(t2, 1),
                              max_history)
            \/ ConcHistory(u) =
                  TrimHistory(TrimHistory(Exchange(t2, 1), max_history) \o Exchange(t1, 1),
                              max_history)

(***************************************************************************)
(* PMReplyHandler.                                                         *)
(***************************************************************************)

\* the positions of a call trace that satisfy P
Positions(calls, P(_)) == {i \in 1 .. Len(calls) : P(calls[i])}

\* the reply: a send_message of the response text to the event's chat
IsReplyOfLastHandle(c) ==
    /\ c.method = "send_message"
    /\ c.peer = pmLast.event.chat_id
    /\ c.text = [kind |-> "reply", message |-> pmLast.env.response.message]

\* C4: whenever the chat agent returns a response for an eligible private
\* message, handle issues exactly one send_message of the response text to
\* event.chat_id, whether or not the response escalates.
C4_ExactlyOneReply ==
    (pmLast.op = "handle" /\ pmLast.responded) =>
        Cardinality(Positions(pmLast.calls, IsReplyOfLastHandle)) = 1

\* the conditions of eligibility for the PM reply handler
PMEligible(h, e) ==
    /\ e.kind = "MessageEvent"
    /\ e.chat_type = "PRIVATE"
    /\ ~e.is_outgoing
    /\ ~e.is_service
    /\ Strip(e.text) # <<>>
    /\ (h.monitored_users = <<>> \/ e.sender_id \in h.monitored_users[1])

\* C10: PMReplyHandler.can_handle returns true exactly when the event is an
\* eligible MessageEvent, and returns false when any one condition fails.
C10_CanHandleIffEligible ==
    pmLast.op = "can_handle" =>
        pmLast.result = IF PMEligible(pmHandler, pmLast.event) THEN "True" ELSE "False"

(***************************************************************************)
(* GroupModerationHandler.                                                 *)
(***************************************************************************)
IsDelete(c) == c.method = "delete_message"
IsSend(c) == c.method = "send_message"
IsLogSend(c) == IsSend(c) /\ c.text.kind = "log"
IsWarningSend(c) == IsSend(c) /\ c.text.kind = "warning"

\* the call deleted the handled event's message and reported success
IsSuccessfulDeleteOfLastHandle(c) ==
    /\ IsDelete(c)
    /\ c.result
    /\ c.chat_id = gmLast.event.chat_id
    /\ c.message_id = gmLast.event.message_id

\* C5: the log and the warning are sent only after delete_message for the
\* event returned success, in the order delete, log (if send_logs_to is
\* configured), warning (if send_warnings is enabled); when delete_message
\* reports failure neither is sent.
C5_SendsOnlyAfterSuccessfulDelete ==
    gmLast.op = "handle" =>
        LET calls == gmLast.calls
            deletes == Positions(calls, IsSuccessfulDeleteOfLastHandle)
            logs == Positions(calls, IsLogSend)
            warnings == Positions(calls, IsWarningSend)
            deleteOk == gmLast.env.moderation = "result"
                        /\ gmLast.env.result.should_delete /\ gmLast.env.delete
            logging == Truthy(gmHandler.send_logs_to)
        IN  /\ \A i \in Positions(calls, IsSend) : \E d \in deletes : d < i
            /\ \A i \in logs, j \in warnings : i < j
            /\ Positions(calls, IsSend) = logs \cup warnings
            /\ (logs # {}) => logging
            /\ (warnings # {}) => gmHandler.send_warnings
            /\ \A i \in logs : calls[i].peer = gmHandler.send_logs_to[1]
            /\ \A i \in warnings : calls[i].peer = gmLast.event.chat_id
            /\ (deleteOk /\ logging) => Cardinality(logs) = 1
            /\ (deleteOk /\ gmHandler.send_warnings
                    /\ ~(logging /\ gmLast.env.logSend = "raise"))
                  => Cardinality(warnings) = 1
            /\ ~deleteOk => Positions(calls, IsSend) = {}

C5_Witness ==
    /\ gmLast.op = "handle"
    /\ Len(gmLast.calls) = 4
    /\ IsSuccessfulDeleteOfLastHandle(gmLast.calls[2])
    /\ IsLogSend(gmLast.calls[3])
    /\ IsWarningSend(gmLast.calls[4])

\* C6: handle calls delete_message at most once per event and only when the
\* moderation result has should_delete true; when should_delete is false it
\* issues no delete and no send.
C6_DeleteAtMostOnceAndOnlyWhenFlagged ==
    gmLast.op = "handle" =>
        LET calls == gmLast.calls
            flagged == gmLast.env.moderation = "result" /\ gmLast.env.result.should_delete
        IN  /\ Cardinality(Positions(calls, IsDelete)) <= 1
            /\ Cardinality(Positions(calls, IsDelete)) = 1 <=> flagged
            /\ ~flagged => Positions(calls, IsSend) = {}

C6_Witness ==
    /\ gmLast.op = "handle"
    /\ gmLast.env.moderation = "result"
    /\ gmLast.env.result.should_delete
    /\ ~gmLast.env.delete
    /\ Cardinality(Positions(gmLast.calls, IsDelete)) = 1
    /\ ~gmLast.calls[Len(gmLast.calls)].result

(***************************************************************************)
(* EventRouter.                                                            *)
(***************************************************************************)

\* route has gone through its handler loop for an event
Dispatched == routed.pc \in {"returned", "raise"} /\ routed.event # <<>>

\* the calls route made on the handler registered i-th
CanHandleCallsOf(i) ==
    {k \in 1 .. Len(routed.calls) :
        routed.calls[k].position = i /\ routed.calls[k].method = "can_handle"}

HandleCallsOf(i) ==
    {k \in 1 .. Len(routed.calls) :
        routed.calls[k].position = i /\ routed.calls[k].method = "handle"}

Raised(i) == \E k \in 1 .. Len(routed.calls) :
                routed.calls[k].position = i /\ routed.calls[k].result = "raise"

\* C1: when a handler's can_handle or handle raises, every handler registered
\* after it is still asked can_handle, and handled if eligible, for the same
\* event, and route returns without raising.
C1_HandlerFailureIsIsolated ==
    Dispatched =>
        /\ routed.pc = "returned"
        /\ \A i \in 1 .. Len(routed.registered), j \in 1 .. Len(routed.registered) :
              (Raised(i) /\ i < j) =>
                  /\ CanHandleCallsOf(j) # {}
                  /\ \A k \in CanHandleCallsOf(j) :
                        routed.calls[k].result = "True" => HandleCallsOf(j) # {}

C1_Witness ==
    /\ Dispatched
    /\ routed.pc = "returned"
    /\ Len(routed.registered) = 2
    /\ Raised(1)
    /\ HandleCallsOf(2) # {}

\* C2: for every update that normalizes to an event, route calls can_handle
\* on each registered handler exactly once in registration order, calls handle
\* exactly once on a handler iff its can_handle returned true, and finishes
\* one handler's pair before asking the next handler.
C2_HandlersRunOnceInRegistrationOrder ==
    Dispatched =>
        LET calls == routed.calls
            n == Len(routed.registered)
        IN  /\ \A k \in 1 .. Len(calls) :
                  /\ calls[k].position \in 1 .. n
                  /\ calls[k].handler = routed.registered[calls[k].position]
            /\ \A i \in 1 .. n :
                  /\ Cardinality(CanHandleCallsOf(i)) = 1
                  /\ \A k \in CanHandleCallsOf(i) :
                        IF calls[k].result = "True"
                        THEN HandleCallsOf(i) = {k + 1}
                        ELSE HandleCallsOf(i) = {}
            /\ \A i \in 1 .. n, j \in 1 .. n :
                  i < j => \A k \in CanHandleCallsOf(i) \cup HandleCallsOf(i),
                              l \in CanHandleCallsOf(j) : k < l

C2_Witness ==
    /\ Dispatched
    /\ routed.registered = <<"h2", "h1">>
    /\ Len(routed.calls) = 3
    /\ routed.calls[1].handler = "h2" /\ routed.calls[1].result = "False"
    /\ routed.calls[2].handler = "h1" /\ routed.calls[2].result = "True"
    /\ routed.calls[3].handler = "h1" /\ routed.calls[3].method = "handle"

\* C3: normalization never raises: for every raw update route returns without
\* an exception reaching its caller.
C3_RouteNeverRaises ==
    routed.pc # "raised"

(***************************************************************************)
(* Group moderation: which events the handler takes.                       *)
(***************************************************************************)
\* the handler was constructed with monitored_groups left unset
BuiltWithoutAllowList(h) ==
    \E l \in {<<>>, <<88>>}, w \in BOOLEAN : h = GMNew(<<>>, l, w)

NotOutgoingService(e) == ~(e.is_outgoing /\ e.is_service)

\* C11: a GroupModerationHandler constructed without a monitored-groups
\* allow-list takes every GROUP message event that is not both outgoing and
\* service, whatever its chat_id: can_handle returns true for it.
C11_UnsetAllowListTakesEveryGroup ==
    (/\ gmLast.op = "can_handle"
     /\ BuiltWithoutAllowList(gmHandler)
     /\ gmLast.event.kind = "MessageEvent"
     /\ gmLast.event.chat_type = "GROUP"
     /\ NotOutgoingService(gmLast.event))
    => gmLast.result = "True"

C14_RetrievalFailureStillAnswers ==
    (lastCall.kind = "call" /\ lastCall.retr \in {"empty", "raise"})
    => /\ ~lastCall.raised
       /\ Len(lastCall.generateCalls) = 1
       /\ lastCall.generateCalls[1].rag_context = ""
       /\ ~lastCall.response.should_escalate
          => /\ lastCall.user_id \in DOMAIN conversations
             /\ LET h == conversations[lastCall.user_id]
                IN  /\ Len(h) >= 2
                    /\ SubSeq(h, Len(h) - 1, Len(h)) =
                          << [role |-> "user", content |-> lastCall.user_message],
                             [role |-> "assistant",
                              content |-> lastCall.response.message] >>

\* C15: when the response escalates and an escalation destination is
\* configured, a failed notification send (send_message returns nothing or
\* raises) does not keep the reply from being sent to the originating chat.
C15_FailedNotificationDoesNotBlockReply ==
    (/\ pmLast.op = "handle"
     /\ pmLast.responded
     /\ pmLast.env.response.should_escalate
     /\ Truthy(pmHandler.escalation_chat_id)
     /\ pmLast.env.escSend \in {"none", "raise"})
    => \E i \in 1 .. Len(pmLast.calls) :
          /\ pmLast.calls[i].peer = pmLast.event.chat_id
          /\ pmLast.calls[i].text.kind = "reply"

\* C16: handle lets no exception out: when generate_response or a
\* send_message raises, handle still returns normally.
C16_HandleNeverRaises ==
    pmLast.op = "handle" => pmLast.outcome = "returned"

\* the reply send raised and handle returned
C16_Witness ==
    /\ pmLast.op = "handle"
    /\ pmLast.calls # <<>>
    /\ pmLast.calls[Len(pmLast.calls)].text.kind = "reply"
    /\ pmLast.calls[Len(pmLast.calls)].result = "raise"
    /\ pmLast.outcome = "returned"

(***************************************************************************)
(* Moderation service: what is inspected and what is not.                  *)
(***************************************************************************)
ModCalled(method) ==
    \E i \in 1 .. Len(modLast.calls) : modLast.calls[i].method = method

MediaTypeOfLast ==
    IF modLast.event.has_media /\ modLast.event.media # <<>>
    THEN modLast.event.media[1].media_type
    ELSE <<>>

DownloadFailed ==
    /\ modLast.op = "moderate_message"
    /\ modLast.env.download # "bytes"

\* moderate_message returned what model.moderate_text(caption) returned
ReturnedTextModerationOf(caption) ==
    /\ \E i \in 1 .. Len(modLast.calls) :
          modLast.calls[i] = ModelCall("moderate_text", caption)
    /\ modLast.outcome = "returned"
    /\ modLast.result = <<modLast.env.result>>

\* C17: for a photo whose download fails, moderate_message returns the
\* result of model.moderate_text(caption) when the caption is non-empty and
\* a non-deleting "Failed to download media" result when there is none;
\* moderate_image is called in neither case.
C17_PhotoDownloadFailureFallsBack ==
    (DownloadFailed /\ MediaTypeOfLast = <<"photo">> /\ modLast.env.model = "result")
    => /\ ~ModCalled("moderate_image")
       /\ IF modLast.event.media[1].caption # <<>>
          THEN ReturnedTextModerationOf(modLast.event.media[1].caption)
          ELSE modLast.result = <<Neutral("Failed to download media")>>

\* C18: for a voice message whose download fails, moderate_message returns
\* the result of model.moderate_text(caption) when a caption exists and a
\* non-deleting "Failed to download media" result otherwise; transcription
\* and moderate_voice are not reached.
C18_VoiceDownloadFailureFallsBack ==
    (DownloadFailed /\ MediaTypeOfLast \in {<<"voice", "note">>, <<"voice">>}
        /\ modLast.env.model = "result")
    => /\ ~ModCalled("_transcribe_voice")
       /\ ~ModCalled("moderate_voice")
       /\ IF modLast.event.media[1].caption # <<>>
          THEN ReturnedTextModerationOf(modLast.event.media[1].caption)
          ELSE modLast.result = <<Neutral("Failed to download media")>>

\* a captioned voice note could not be downloaded and its caption was moderated
C18_Witness ==
    /\ DownloadFailed
    /\ MediaTypeOfLast = <<"voice", "note">>
    /\ modLast.event.media[1].caption = <<"a">>
    /\ modLast.env.model = "result"
    /\ modLast.result = <<modLast.env.result>>
    /\ modLast.calls = <<DownloadCall(modLast.event), ModelCall("moderate_text", <<"a">>)>>

\* the message has nothing moderate_message looks at
NothingToModerate(e) ==
    \/ e.has_media /\ e.media # <<>> /\ e.media[1].media_type = <<"video">>
    \/ ~e.has_media /\ e.text = <<>>
    \/ /\ e.has_media /\ e.media # <<>>
       /\ e.media[1].media_type \notin
              {<<"photo">>, <<"voice", "note">>, <<"voice">>, <<"video">>}
       /\ e.media[1].caption = <<>>

\* C19: for a video message (captioned or not), a message with no media and
\* empty text, and captionless media other than photo, voice and video,
\* moderate_message calls no model, downloads nothing, transcribes nothing
\* and returns should_delete = false with reason "No content to moderate".
C19_NothingToModerateMakesNoCall ==
    (modLast.op = "moderate_message" /\ NothingToModerate(modLast.event))
    => /\ modLast.calls = <<>>
       /\ modLast.outcome = "returned"
       /\ modLast.result = <<Neutral("No content to moderate")>>

\* a captioned video was returned as "No content to moderate"
C19_Witness ==
    /\ modLast.op = "moderate_message"
    /\ MediaTypeOfLast = <<"video">>
    /\ modLast.event.media[1].caption = <<"a">>
    /\ modLast.calls = <<>>
    /\ modLast.result = <<Neutral("No content to moderate")>>

(***************************************************************************)
(* Normalization: the chat type of a chat_id.                              *)
(***************************************************************************)
DigitChar(d) == <<"0", "1", "2", "3", "4", "5", "6", "7", "8", "9">>[d + 1]

\* the decimal digits of n >= 0, most significant first
RECURSIVE DecimalOf(_)
DecimalOf(n) ==
    IF n < 10 THEN <<DigitChar(n)>> ELSE Append(DecimalOf(n \div 10), DigitChar(n % 10))

\* str(n)
DecimalForm(n) == IF n < 0 THEN <<"-">> \o DecimalOf(-n) ELSE DecimalOf(n)

\* C20: the normalized event's chat_type is PRIVATE if chat_id > 0; otherwise
\* SUPERGROUP if the decimal form of chat_id starts with "-100"; otherwise
\* GROUP if chat_id < 0; and UNKNOWN only for chat_id = 0.
C20_ChatTypeFollowsChatId ==
    (normLast.op = "normalize" /\ normLast.outcome = "event")
    => LET c == normLast.message.chat_id
           t == normLast.event[1].chat_type
       IN  /\ t = IF c > 0 THEN "PRIVATE"
                  ELSE IF StartsWith(DecimalForm(c), <<"-", "1", "0", "0">>)
                  THEN "SUPERGROUP"
                  ELSE IF c < 0 THEN "GROUP"
                  ELSE "UNKNOWN"
           /\ t = "UNKNOWN" <=> c = 0

\* a five-digit chat_id under -100... has been normalized as a supergroup
C20_Witness ==
    /\ normLast.op = "normalize"
    /\ normLast.outcome = "event"
    /\ normLast.message.chat_id = -10012
    /\ normLast.event[1].chat_type = "SUPERGROUP"

(***************************************************************************)
(* Normalization: media and sender of the event.                           *)
(***************************************************************************)
\* the content type of the last message normalized, <<>> when it has none
NormContentType ==
    DictGet(DictGet(normLast.message, "content", EmptyDict), "type", <<>>)

\* C21: every MessageEvent normalization produces has has_media true exactly
\* when its media is not None, whatever the content: plain text, a known
\* media type, a service message, an unrecognized type or no content at all.
C21_HasMediaIffMedia ==
    (normLast.op = "normalize" /\ normLast.outcome = "event")
    => (normLast.event[1].has_media <=> normLast.event[1].media # <<>>)

\* a message without a content object was normalized as media of type 'unknown'
C21_Witness ==
    /\ normLast.op = "normalize"
    /\ normLast.outcome = "event"
    /\ "content" \notin DOMAIN normLast.message
    /\ normLast.event[1].has_media
    /\ normLast.event[1].media = << [media_type |-> <<"unknown">>, caption |-> <<>>] >>

(***************************************************************************)
(* Routing: degraded sender lookups and edited messages.                   *)
(***************************************************************************)
\* route was called with an update of the given TDLib type
RoutedUpdateOfType(t) ==
    /\ routed.pc # "idle"
    /\ "type" \in DOMAIN routed.update
    /\ routed.update.type = t

\* C22: when the sender lookup returns nothing, normalization still produces
\* the MessageEvent, with a SenderInfo that carries the sender id, the
\* first_name "User<id>" and empty username, last name and phone, and the
\* event goes to the handlers.
C22_MissingSenderIsDegradedNotDropped ==
    (/\ RoutedUpdateOfType("updateNewMessage")
     /\ "message" \in DOMAIN routed.update
     /\ {"id", "chat_id", "date"} \subseteq DOMAIN routed.update.message
     /\ routed.env.user_info = <<>>)
    => /\ routed.pc \in {"dispatching", "returned"}
       /\ routed.event # <<>>
       /\ LET sid == routed.update.message.sender_id.user_id
          IN  routed.event[1].sender =
                 [user_id |-> sid, username |-> <<>>, first_name |-> <<"User", sid>>,
                  last_name |-> <<>>, phone |-> <<>>]
       /\ routed.pc = "returned"
          => \A i \in 1 .. Len(routed.registered) : Cardinality(CanHandleCallsOf(i)) = 1

\* an event whose sender lookup failed has been through a handler
C22_Witness ==
    /\ RoutedUpdateOfType("updateNewMessage")
    /\ routed.pc = "returned"
    /\ routed.env.user_info = <<>>
    /\ routed.event # <<>>
    /\ routed.event[1].sender.first_name = <<"User", 1>>
    /\ \E i \in 1 .. Len(routed.calls) : routed.calls[i].method = "handle"

GetMessageRequests ==
    {i \in 1 .. Len(routed.requests) : routed.requests[i].method = "getMessage"}

\* C30: for a message-edited update the router issues one getMessage request
\* for the update's (chat_id, message_id) before any handler is consulted; if
\* the request reports an error no event is produced and no handler is
\* called; if it succeeds the event's fields are those of the fetched
\* message, not of the notification.
C30_EditedMessageIsRefetched ==
    RoutedUpdateOfType("updateMessageEdited")
    => /\ GetMessageRequests = {1}
       /\ routed.requests[1] = [client |-> routed.client, method |-> "getMessage",
                                chat_id |-> routed.update.chat_id,
                                message_id |-> routed.update.message_id]
       /\ routed.env.getMessage = "error"
          => /\ routed.event = <<>>
             /\ routed.calls = <<>>
             /\ routed.pc = "returned"
       /\ (routed.env.getMessage = "ok" /\ routed.event # <<>>)
          => /\ routed.event[1].message_id = routed.env.fetched.id
             /\ routed.event[1].chat_id = routed.env.fetched.chat_id
             /\ routed.event[1].date = routed.env.fetched.date
             /\ routed.event[1].text = routed.env.fetched.content.text.text
             /\ routed.event[1].is_outgoing = routed.env.fetched.is_outgoing

\* a fetched message that differs from the notification went to a handler
C30_Witness ==
    /\ RoutedUpdateOfType("updateMessageEdited")
    /\ routed.pc = "returned"
    /\ routed.env.getMessage = "ok"
    /\ routed.event # <<>>
    /\ routed.event[1].message_id = 11
    /\ routed.event[1].chat_id = -7
    /\ routed.calls # <<>>

(***************************************************************************)
(* Several clients on one router.                                          *)
(***************************************************************************)
\* C23: every backend request caused by routing an update received on
\* client c (sender lookup, message re-fetch, file download, delete, reply,
\* warning, log and escalation sends) is issued on client c, under any
\* interleaving of the clients' route calls.
C23_RequestsStayOnOriginatingClient ==
    \A r \in mcLog : r.issued_on = r.received_on

\* both clients have caused every kind of request, while the other was mid-route
C23_Witness ==
    /\ \A c \in Clients :
          \A w \in {"get_user", "getMessage", "_download_file", "delete_message",
                     "reply", "warning", "log", "escalation"} :
             \E r \in mcLog : r.received_on = c /\ r.what = w
    /\ \E c \in Clients : mcFrames[c].pc # "idle"

(***************************************************************************)
(* Peer resolution.                                                        *)
(***************************************************************************)
\* int(s) for a string of decimal digits
RECURSIVE ParseDigits(_)
ParseDigits(s) ==
    IF s = <<>> THEN 0
    ELSE 10 * ParseDigits(SubSeq(s, 1, Len(s) - 1))
         + (CHOOSE d \in 0 .. 9 : DigitChar(d) = s[Len(s)])

\* p, |p|, -|p| and the "-100"-prefixed form of |p|, the last one omitted
\* when the decimal form of |p| already starts with "100"
NamedVariants(p) ==
    LET digits == DecimalOf(Abs(p))
        prefixed == Len(digits) >= 3 /\ SubSeq(digits, 1, 3) = <<"1", "0", "0">>
    IN  <<p, Abs(p), -Abs(p)>>
        \o (IF prefixed THEN <<>> ELSE << -ParseDigits(<<"1", "0", "0">> \o digits) >>)

\* the positions of seq that hold the first occurrence of their value
FirstOccurrences(seq) == { i \in 1 .. Len(seq) : \A j \in 1 .. (i - 1) : seq[j] # seq[i] }

\* ids visits the distinct values of seq in order of first occurrence,
\* as far as ids goes
VisitsInOrder(ids, seq) ==
    /\ Len(ids) <= Cardinality(FirstOccurrences(seq))
    /\ \A k \in 1 .. Len(ids) :
          \E i \in FirstOccurrences(seq) :
             /\ seq[i] = ids[k]
             /\ Cardinality({ j \in FirstOccurrences(seq) : j < i }) = k - 1

ResolvedPeer(kind) ==
    /\ peerLast.op = "_resolve_peer"
    /\ peerLast.input.running
    /\ peerLast.input.peer.kind = kind

\* C24: for a numeric peer p the getChat requests go through p, |p|, -|p|
\* and the "-100" form of |p| (left out when |p| starts with "100"), in that
\* order, each distinct value once; every request before the last one was
\* rejected; the result is the first accepted variant, or None once all
\* are rejected.  For a username the only request is the one
\* searchPublicChat, and the result is its id or None.
C24_VariantsInOrderUntilAccepted ==
    /\ ResolvedPeer("number")
       => LET p == peerLast.input.peer.value
              accepted == peerLast.input.env.accepted
              reqs == peerLast.requests
              ids == [k \in 1 .. Len(reqs) |-> reqs[k].chat_id]
              all == NamedVariants(p)
          IN  /\ \A k \in 1 .. Len(reqs) : reqs[k].method = "getChat"
              /\ VisitsInOrder(ids, all)
              /\ \A k \in 1 .. (Len(ids) - 1) : ids[k] \notin accepted
              /\ IF \E i \in 1 .. Len(all) : all[i] \in accepted
                 THEN /\ ids # <<>>
                      /\ ids[Len(ids)] \in accepted
                      /\ peerLast.result = <<ids[Len(ids)]>>
                 ELSE /\ Len(ids) = Cardinality(FirstOccurrences(all))
                      /\ peerLast.result = <<>>
    /\ ResolvedPeer("username")
       => /\ Len(peerLast.requests) = 1
          /\ peerLast.requests[1].method = "searchPublicChat"
          /\ peerLast.result = (IF peerLast.input.env.search = "found"
                                THEN <<FoundChatId>> ELSE <<>>)

\* a peer whose |p| starts with "100" was rejected in all its forms, and
\* another peer was resolved to its "-100" form
C24_Witness ==
    /\ ResolvedPeer("number")
    /\ \/ /\ peerLast.input.peer.value = -100
          /\ Len(peerLast.requests) = 2
          /\ peerLast.result = <<>>
       \/ /\ peerLast.input.peer.value = 7
          /\ Len(peerLast.requests) = 3
          /\ peerLast.result = <<-1007>>

(***************************************************************************)
(* Client manager.                                                         *)
(***************************************************************************)
\* C25: stop_all attempts stop() on every registered client, whether or not
\* an earlier client's stop returned false or raised.
C25_StopAttemptedOnEveryClient ==
    mgrLast.op = "stop_all"
    => \A i \in 1 .. Len(mgrLast.clients) :
          \E k \in 1 .. Len(mgrLast.calls) :
             mgrLast.calls[k].name = mgrLast.clients[i].name

(***************************************************************************)
(* Knowledge base.                                                         *)
(***************************************************************************)
\* build_index(force_rebuild=False) was called at positions k and k + 1
BuiltTwiceInSuccession(k) ==
    /\ k + 1 <= Len(kbLast)
    /\ kbLast[k].op = "build_index" /\ ~kbLast[k].force_rebuild
    /\ kbLast[k + 1].op = "build_index" /\ ~kbLast[k + 1].force_rebuild

\* C26: when build_index(force_rebuild=False) is called twice in succession,
\* from an empty or a populated store, the second call leaves the store as
\* it was and returns the count the store held after the first call.
C26_SecondBuildIsIdempotent ==
    \A k \in 1 .. Len(kbLast) :
       BuiltTwiceInSuccession(k)
       => /\ kbLast[k + 1].after = kbLast[k + 1].before
          /\ kbLast[k + 1].outcome = "returned"
          /\ kbLast[k + 1].returned = <<Cardinality(kbLast[k].after)>>

\* the chunks _chunk_texts returned for the text at position i of its input
ChunksOfText(i) ==
    SelectSeq(chunkLast.chunks, LAMBDA c : c.metadata.source_index = i - 1)

\* the chunks of text i start at the multiples of the stride, carry the
\* text of their span, overlap their successor by chunk_overlap characters,
\* and, when there are any, start at 0 and end at the end of the text
SpansCoverWithOverlap(i) ==
    LET text == chunkLast.input.texts[i]
        size == chunkLast.input.config.chunk_size
        overlap == chunkLast.input.config.chunk_overlap
        cs == ChunksOfText(i)
    IN  /\ \A k \in 1 .. Len(cs) :
              /\ cs[k].metadata.start = (k - 1) * (size - overlap)
              /\ cs[k].metadata.start < cs[k].metadata.end
              /\ cs[k].metadata.end <= Len(text)
              /\ cs[k].text = [j \in 1 .. (cs[k].metadata.end - cs[k].metadata.start)
                                 |-> text[cs[k].metadata.start + j]]
        /\ \A k \in 1 .. (Len(cs) - 1) :
              cs[k].metadata.end - cs[k + 1].metadata.start = overlap
        /\ \A p \in 1 .. Len(text) :
              \E k \in 1 .. Len(cs) :
                 cs[k].metadata.start < p /\ p <= cs[k].metadata.end
        /\ cs # <<>> => cs[Len(cs)].metadata.end = Len(text)

Chunked ==
    /\ chunkLast.op = "_chunk_texts"
    /\ chunkLast.input.config.chunk_overlap < chunkLast.input.config.chunk_size

\* C27 as stated: for every text and every configuration with
\* 0 <= chunk_overlap < chunk_size the spans start at the multiples of
\* chunk_size - chunk_overlap, carry text[start:end], cover the text up to
\* its end and overlap by exactly chunk_overlap; and every text of length
\* 0 .. chunk_size - 1 yields exactly one chunk.
C27_ShortTextsYieldOneChunk ==
    Chunked
    => \A i \in 1 .. Len(chunkLast.input.texts) :
          /\ SpansCoverWithOverlap(i)
          /\ Len(chunkLast.input.texts[i]) < chunkLast.input.config.chunk_size
             => Len(ChunksOfText(i)) = 1

\* C27, amended: the same spans, coverage and overlap; every text of length
\* 1 .. chunk_size - 1 yields exactly one chunk, and the empty text yields
\* no chunk.
C27_NonEmptyShortTextsYieldOneChunk ==
    Chunked
    => \A i \in 1 .. Len(chunkLast.input.texts) :
          /\ SpansCoverWithOverlap(i)
          /\ Len(chunkLast.input.texts[i]) \in 1 .. (chunkLast.input.config.chunk_size - 1)
             => Len(ChunksOfText(i)) = 1
          /\ chunkLast.input.texts[i] = <<>> => ChunksOfText(i) = <<>>

\* an empty text and a one-character text were chunked together: the only
\* chunk is the second text's
C27_Witness ==
    /\ Chunked
    /\ chunkLast.input.texts = << <<>>, <<"x">> >>
    /\ Len(chunkLast.chunks) = 1
    /\ chunkLast.chunks[1].metadata.source_index = 1

(***************************************************************************)
(* Moderation service: which model call is made, and what comes back.      *)
(***************************************************************************)
\* the calls of moderation-model methods among the calls of the last
\* moderate_message
ModelCallsOfLast ==
    SelectSeq(modLast.calls,
              LAMBDA c : c.method \in {"moderate_text", "moderate_image", "moderate_voice"})

\* the last moderate_message made exactly this model call and returned its result
ReturnedTheOneCall(call) ==
    /\ ModelCallsOfLast = <<call>>
    /\ modLast.outcome = "returned"
    /\ modLast.result = <<modLast.env.result>>

\* the last moderate_message was given a message of one of these media types
ModeratedMediaOf(types) ==
    /\ modLast.op = "moderate_message"
    /\ modLast.event.has_media
    /\ modLast.event.media # <<>>
    /\ modLast.event.media[1].media_type \in types

\* C28: with a model that answers, moderate_message makes exactly one model
\* call and returns its result unchanged: moderate_text(text) for a message
\* without media and with text; moderate_image(bytes, caption) for a photo
\* that was downloaded; moderate_voice(transcription) for a voice note that
\* was downloaded and transcribed; moderate_text(caption) for any other
\* media type but video that has a caption.
C28_OneModelCallByContentShape ==
    (modLast.op = "moderate_message" /\ modLast.env.model = "result")
    => LET e == modLast.event
       IN  /\ (~e.has_media /\ e.text # <<>>)
              => ReturnedTheOneCall(ModelCall("moderate_text", e.text))
           /\ (ModeratedMediaOf({<<"photo">>}) /\ modLast.env.download = "bytes")
              => ReturnedTheOneCall(ModelCall("moderate_image", e.media[1].caption))
           /\ (/\ ModeratedMediaOf({<<"voice", "note">>, <<"voice">>})
               /\ modLast.env.download = "bytes"
               /\ modLast.env.transcribe = "text")
              => ReturnedTheOneCall(ModelCall("moderate_voice", <<"transcription">>))
           /\ (/\ ModeratedMediaOf({<<"video", "note">>, <<"document">>})
               /\ e.media[1].caption # <<>>)
              => ReturnedTheOneCall(ModelCall("moderate_text", e.media[1].caption))

\* a downloaded photo with a caption went to moderate_image, which asked
\* for deletion
C28_Witness ==
    /\ ModeratedMediaOf({<<"photo">>})
    /\ modLast.env.download = "bytes"
    /\ modLast.env.model = "result"
    /\ modLast.event.media[1].caption # <<>>
    /\ ModelCallsOfLast = <<ModelCall("moderate_image", modLast.event.media[1].caption)>>
    /\ modLast.result # <<>>
    /\ modLast.result[1].should_delete

\* C29: moderate_message returns should_delete = true only if a model call
\* it made returned should_delete = true; and in the photo and voice paths
\* a failed download without caption, a missing, failing or empty
\* transcription, and an exception raised inside the path all end in a
\* returned result with should_delete = false, never in an exception.
C29_DeletesOnlyOnModelVerdict ==
    modLast.op = "moderate_message"
    => /\ (/\ modLast.outcome = "returned"
           /\ modLast.result[1].should_delete)
          => /\ ModelCallsOfLast # <<>>
             /\ modLast.env.model = "result"
             /\ modLast.env.result.should_delete
       /\ ModeratedMediaOf({<<"photo">>, <<"voice", "note">>, <<"voice">>})
          => /\ modLast.outcome = "returned"
             /\ (\/ /\ modLast.env.download # "bytes"
                    /\ modLast.event.media[1].caption = <<>>
                 \/ /\ ModeratedMediaOf({<<"voice", "note">>, <<"voice">>})
                    /\ modLast.env.download = "bytes"
                    /\ modLast.env.transcribe # "text"
                 \/ /\ ModelCallsOfLast # <<>>
                    /\ modLast.env.model = "raise")
                => ~modLast.result[1].should_delete

\* the model raised while moderating a transcribed voice note; a neutral
\* result came back
C29_Witness ==
    /\ ModeratedMediaOf({<<"voice", "note">>})
    /\ modLast.env.model = "raise"
    /\ ModCalled("moderate_voice")
    /\ modLast.outcome = "returned"
    /\ ~modLast.result[1].should_delete

(***************************************************************************)
(* Normalization: unrecognized content types.                              *)
(***************************************************************************)
\* the content types _extract_media_info has type-specific fields for
RecognizedMediaTypes ==
    { <<"message", "Photo">>, <<"message", "Video">>, <<"message", "Voice", "Note">>,
      <<"message", "Audio">>, <<"message", "Document">>, <<"message", "Sticker">>,
      <<"message", "Animation">> }

\* C31: for every content type that is neither text nor one of photo, video,
\* voice note, audio, document, sticker and animation, the MediaInfo of the
\* normalized event has media_type "unknown" and nothing but its caption.
C31_UnrecognizedMediaIsUnknown ==
    (/\ normLast.op = "normalize"
     /\ normLast.outcome = "event"
     /\ NormContentType # MessageText
     /\ NormContentType \notin RecognizedMediaTypes)
    => /\ normLast.event[1].media # <<>>
       /\ normLast.event[1].media[1].media_type = <<"unknown">>
       /\ DOMAIN normLast.event[1].media[1] = {"media_type", "caption"}

(***************************************************************************)
(* Handlers and events that are not messages.                              *)
(***************************************************************************)
NotAMessage(event) == event.kind \in {"UserStatusEvent", "ChatActionEvent"}

\* C32: for a UserStatusEvent or a ChatActionEvent the can_handle of the
\* private-message reply handler and that of the group moderation handler
\* return false, without raising.
C32_OtherEventsAreDeclined ==
    /\ (pmLast.op = "can_handle" /\ NotAMessage(pmLast.event)) => pmLast.result = "False"
    /\ (gmLast.op = "can_handle" /\ NotAMessage(gmLast.event)) => gmLast.result = "False"

(***************************************************************************)
(* Chat agent: the history is a sliding window over the exchanges.         *)
(***************************************************************************)
HistoryOf(convs, u) == DictGet(convs, u, <<>>)

\* the history that holds the last k of the given exchanges, oldest first,
\* each as a user entry followed by its assistant entry
WindowOf(exs, k) ==
    [ i \in 1 .. (2 * k) |->
        LET e == exs[Len(exs) - k + ((i + 1) \div 2)]
        IN  IF i % 2 = 1 THEN [role |-> "user", content |-> e.user]
            ELSE [role |-> "assistant", content |-> e.assistant] ]

C34_WhisperLoadedAtMostOnce == wsLoads <= 1

(***************************************************************************)
(* Knowledge base: building the index.                                     *)
(***************************************************************************)
\* build_index was called at position k on an empty store, or with
\* force_rebuild
BuiltFromScratch(k) ==
    /\ kbLast[k].op = "build_index"
    /\ kbLast[k].before = {} \/ kbLast[k].force_rebuild

\* C35: build_index on an empty store, or with force_rebuild = true, over a
\* source that yields n >= 1 chunks, leaves exactly the ids "0" .. "n-1" in
\* the store and returns n.
C35_BuildIndexesEveryChunk ==
    \A k \in 1 .. Len(kbLast) :
       BuiltFromScratch(k)
       => /\ kbLast[k].outcome = "returned"
          /\ kbLast[k].returned # <<>>
          /\ kbLast[k].returned[1] >= 1
          /\ kbLast[k].after = StoreOf(kbLast[k].returned[1])

(***************************************************************************)
(* PM reply handler: the order of the escalation notice and the reply.     *)
(***************************************************************************)
\* the positions in the last handle call's sends of the texts of this kind
SendsOfKind(kind) ==
    { i \in 1 .. Len(pmLast.calls) :
        pmLast.calls[i].method = "send_message" /\ pmLast.calls[i].text.kind = kind }

\* C36: when handle sends an escalation notification, the auto-reply the
\* notification reports as sent has been sent to the originating chat
\* before it.
C36_ReplyPrecedesEscalationNotice ==
    pmLast.op = "handle"
    => \A i \in SendsOfKind("escalation") :
          \E j \in SendsOfKind("reply") :
             /\ j < i
             /\ pmLast.calls[j].peer = pmLast.event.chat_id
             /\ pmLast.calls[j].text.message = pmLast.calls[i].text.message

(***************************************************************************)
(* The two handlers never take the same event.                             *)
(***************************************************************************)
\* group moderation handlers whose monitored groups cover every chat id
\* of the events, private chats included
CoveringGMHandlers == { GMNew(<<g>>, <<>>, FALSE) : g \in SUBSET {1, 7, 1007} }

\* C37: for every normalized event, whatever the two handlers are configured
\* with, at most one of PMReplyHandler.can_handle and
\* GroupModerationHandler.can_handle returns true.
C37_HandlersAreExclusive ==
    pmLast.op = "can_handle"
    => \A g \in CoveringGMHandlers :
          ~(pmLast.result = "True" /\ GMCanHandle(g, pmLast.event) = "True")

\* the PM handler takes a private message whose chat id a moderation
\* handler monitors, which declines it; and that moderation handler takes
\* group messages
C37_Witness ==
    /\ pmLast.op = "can_handle"
    /\ pmLast.result = "True"
    /\ pmLast.event.chat_id = 1
    /\ GMCanHandle(GMNew(<<{1, 7}>>, <<>>, FALSE), pmLast.event) = "False"
    /\ \E e \in MessageEvents :
          /\ GMCanHandle(GMNew(<<{1, 7}>>, <<>>, FALSE), e) = "True"
          /\ PMCanHandle(pmHandler, e) = "False"

(***************************************************************************)
(* One auto-reply per message.                                             *)
(***************************************************************************)
\* the route call at position i sent a reply for its message
RepliedAt(i) ==
    \E k \in 1 .. Len(pmReplies[i].calls) :
       /\ pmReplies[i].calls[k].method = "send_message"
       /\ pmReplies[i].calls[k].text.kind = "reply"

SameMessage(i, j) ==
    /\ pmReplies[i].chat_id = pmReplies[j].chat_id
    /\ pmReplies[i].message_id = pmReplies[j].message_id

\* C38: over a client's updates the handler replies at most once per
\* message (chat_id, message_id): a message-edited update for a message that
\* was answered causes no further agent call and no further reply.
C38_OneReplyPerMessage ==
    \A i \in 1 .. Len(pmReplies), j \in 1 .. Len(pmReplies) :
       (i < j /\ SameMessage(i, j) /\ RepliedAt(i))
       => ~pmReplies[j].agent_called /\ ~RepliedAt(j)

(***************************************************************************)
(* Knowledge base: chunking terminates.                                    *)
(***************************************************************************)
\* C39: _chunk_texts returns for every text and every configuration with
\* chunk_size >= 1 and chunk_overlap >= 0, chunk_overlap >= chunk_size
\* included.
C39_ChunkingTerminates == <>(ckLoop.pc = "returned")

(***************************************************************************)
(* TDLib client: nothing is sent before a start has succeeded.             *)
(***************************************************************************)
\* C40: while no start() of the client has succeeded (it was never started,
\* or start() returned false), send_message returns None, delete_message
\* returns false, listen registers no handler, and none of them issues a
\* backend request.
C40_NoRequestBeforeStart ==
    \A i \in 1 .. Len(tdLog) :
       (~tdLog[i].started /\ tdLog[i].method # "start")
       => /\ tdLog[i].requests = <<>>
          /\ tdLog[i].result = (CASE tdLog[i].method = "send_message" -> "None"
                                  [] tdLog[i].method = "delete_message" -> "False"
                                  [] tdLog[i].method = "listen" -> "not registered")
====
